---- MODULE Spec2Model ----
(***************************************************************************)
(* Model of the code-property-graph construction engine of llm_scanner:    *)
(*   - models/base.py                      NodeID.create                   *)
(*   - services/cpg_parser/ts_parser/node_processor.py   NodeProcessor     *)
(*   - services/cpg_parser/ts_parser/cpg_builder.py      CPGFileBuilder,   *)
(*                                                       CPGDirectoryBuilder*)
(*                                                                         *)
(* Strings are sequences of tokens (a token is an indivisible piece of     *)
(* text); a source file is a sequence of tokens and a byte offset is an    *)
(* index into it.  Concatenation of strings is \o.                         *)
(***************************************************************************)
EXTENDS Integers, Sequences, FiniteSets, TLC

VARIABLES
    \* ---- NodeID.create, called on two argument tuples
    id_args,            \* <<tuple1, tuple2>>, each [type_, name, path, start_byte]
    id_out,             \* <<id1, id2>> once created, <<>> before
    \* ---- NodeProcessor (one file)
    items,              \* the module under construction: sequence of menu entries
    path,               \* NodeProcessor.path
    file_tree,          \* CPGFileBuilder.__tree: the tree-sitter tree of the file
    file_source,        \* CPGFileBuilder.__source / NodeProcessor.source
    pc,                 \* position inside NodeProcessor.process(module)
    child_i,            \* index of the loop of process() that is running
    scope_stack,        \* NodeProcessor.__scope_stack
    caller_stack,       \* NodeProcessor.__caller_stack
    visited_node_ids,   \* NodeProcessor.visited_node_ids
    nodes,              \* the nodes dict of process(module), insertion ordered
    edges,              \* the edges list of process(module)
    \* ---- CPGDirectoryBuilder
    files,              \* the files under root (set of catalogue entries)
    on_error,           \* CPGDirectoryBuilder.on_error
    link_imports,       \* CPGDirectoryBuilder.link_imports
    listing,            \* order in which the file system enumerates the files
    python_files,       \* result of _collect_python_files
    phase,              \* position inside CPGDirectoryBuilder.build
    file_i,             \* index of the per-file loop that is running
    symbol_index,       \* result of _build_symbol_index (so far)
    merged_nodes,       \* merged_nodes of build
    merged_edges,       \* merged_edges of build
    raised,             \* the exception that left build ("" if none)
    run,                \* 1 for the first build of the directory, 2 for the second
    first_result,       \* what the first build returned or raised
    \* ---- the scope resolver of NodeProcessor, driven operation by operation
    scope_op,           \* the operation called last ("" before the first)
    scope_result,       \* what the last __resolve_symbol returned
    \* ---- ContextAssemblerService._render_context
    token_budget,       \* ContextAssemblerService.token_budget
    token_estimator,    \* ContextAssemblerService.token_estimator (a name, or None)
    finding,            \* the finding argument
    context_nodes,      \* the nodes argument: list of CodeContextNode
    render_parts,       \* the local parts
    total_tokens,       \* the local total_tokens
    node_i,             \* index of the node the loop is at
    render_pc,          \* position inside _render_context
    \* ---- GeneralPipeline.run
    pipe_pc,            \* position inside run
    pipe_log,           \* the calls that have completed, in order
    \* ---- CPGDirectoryBuilder._resolve_import_from_module, called for one import
    import_args,        \* [file, level, module]: importing file, ast level and module
    import_out          \* [value |-> what the call returned] once called, <<>> before

idVars   == <<id_args, id_out>>
fileVars == <<items, path, file_tree, file_source, pc, child_i, scope_stack, caller_stack,
              visited_node_ids, nodes, edges>>
dirVars  == <<files, on_error, link_imports, listing, python_files, phase, file_i,
              symbol_index, merged_nodes, merged_edges, raised, run, first_result>>
scopeVars == <<scope_op, scope_result>>
renderVars == <<token_budget, token_estimator, finding, context_nodes, render_parts, total_tokens,
                node_i, render_pc>>
pipeVars == <<pipe_pc, pipe_log>>
importVars == <<import_args, import_out>>
extVars  == <<scope_op, scope_result,
              token_budget, token_estimator, finding, context_nodes, render_parts, total_tokens,
              node_i, render_pc, pipe_pc, pipe_log, import_args, import_out>>
vars     == <<id_args, id_out,
              items, path, file_tree, file_source, pc, child_i, scope_stack, caller_stack,
              visited_node_ids, nodes, edges,
              files, on_error, link_imports, listing, python_files, phase, file_i,
              symbol_index, merged_nodes, merged_edges, raised, run, first_result,
              scope_op, scope_result,
              token_budget, token_estimator, finding, context_nodes, render_parts, total_tokens,
              node_i, render_pc, pipe_pc, pipe_log, import_args, import_out>>

(***************************************************************************)
(* Bounds                                                                  *)
(***************************************************************************)
MaxByte == 1        \* largest start_byte handed to NodeID.create on its own
MaxItems == 3       \* largest number of top-level constructs of a module
MaxFiles == 2       \* largest number of files under the root directory

(***************************************************************************)
(* Strings                                                                 *)
(***************************************************************************)
RECURSIVE ConcatAll(_)
ConcatAll(ss) == IF ss = <<>> THEN <<>> ELSE Head(ss) \o ConcatAll(Tail(ss))

StartsWith(s, p) == Len(s) >= Len(p) /\ SubSeq(s, 1, Len(p)) = p

IsSpace(t) == t \in {" ", "\n"}

\* str.split(): the maximal runs of non-whitespace tokens
RECURSIVE Split(_, _, _)
Split(s, cur, acc) ==
    IF s = <<>> THEN (IF cur = <<>> THEN acc ELSE Append(acc, cur))
    ELSE IF IsSpace(Head(s))
         THEN Split(Tail(s), <<>>, IF cur = <<>> THEN acc ELSE Append(acc, cur))
         ELSE Split(Tail(s), Append(cur, Head(s)), acc)

\* " ".join(words)
RECURSIVE Join(_)
Join(ws) == IF ws = <<>> THEN <<>>
            ELSE IF Len(ws) = 1 THEN ws[1]
            ELSE ws[1] \o <<" ">> \o Join(Tail(ws))

\* NodeProcessor.__normalize_name
normalize_name(raw) == Join(Split(raw, <<>>, <<>>))

\* str.lower() on the node-kind tags
Lower(t) == CASE t = "Function" -> "function"
              [] t = "Class"    -> "class"
              [] t = "Module"   -> "module"
              [] OTHER          -> t

(***************************************************************************)
(* models/base.py                                                          *)
(***************************************************************************)
\* NodeID.create: f"{type_.lower()}:{name}@{path}:{start_byte}"
NodeID_create(type_, name, p, start_byte) ==
    <<Lower(type_), ":">> \o name \o <<"@">> \o p \o <<":", ToString(start_byte)>>

(***************************************************************************)
(* The concrete syntax tree (tree_sitter.Node): type, is_named, byte range,*)
(* start and end row, children, and the named fields as a map from field   *)
(* name to child index.  A fragment is a piece of source text together with*)
(* its tree, positioned relative to the start of the text.                 *)
(***************************************************************************)
RECURSIVE Newlines(_)
Newlines(s) == IF s = <<>> THEN 0
               ELSE (IF Head(s) = "\n" THEN 1 ELSE 0) + Newlines(Tail(s))

RECURSIVE Shift(_, _, _)
Shift(t, d, dl) ==
    [t EXCEPT !.sb = @ + d, !.eb = @ + d, !.sl = @ + dl, !.el = @ + dl,
              !.kids = [i \in DOMAIN t.kids |-> Shift(t.kids[i], d, dl)]]

\* an anonymous token such as "def" or "("
Tk(t) == [tree |-> [type |-> t, named |-> FALSE, sb |-> 0, eb |-> 1, sl |-> 0,
                    el |-> 0, kids |-> <<>>, fields |-> <<>>],
          src |-> <<t>>]
\* a named leaf such as an identifier or an integer
Leaf(type, t) == [tree |-> [type |-> type, named |-> TRUE, sb |-> 0, eb |-> 1,
                            sl |-> 0, el |-> 0, kids |-> <<>>, fields |-> <<>>],
                  src |-> <<t>>]
\* white space in front of a fragment
Ws(toks, f) == [tree |-> Shift(f.tree, Len(toks), Newlines(toks)),
                src |-> toks \o f.src]
Sp(f) == Ws(<<" ">>, f)
Nl(f) == Ws(<<"\n">>, f)
NlIndent(f) == Ws(<<"\n", " ">>, f)

SrcBefore(parts, i) == ConcatAll([j \in 1..(i - 1) |-> parts[j].src])

\* a named inner node whose children are the trees of parts, in order
Comp(type, parts, fields) ==
    LET src == ConcatAll([j \in 1..Len(parts) |-> parts[j].src])
    IN  [tree |-> [type |-> type, named |-> TRUE, sb |-> 0, eb |-> Len(src),
                   sl |-> 0, el |-> Newlines(src),
                   kids |-> [i \in 1..Len(parts) |->
                               Shift(parts[i].tree, Len(SrcBefore(parts, i)),
                                     Newlines(SrcBefore(parts, i)))],
                   fields |-> fields],
         src |-> src]

\* tree_sitter.Node.child_by_field_name
HasField(n, f) == f \in DOMAIN n.fields
Field(n, f) == n.kids[n.fields[f]]

\* parts separated by ","
RECURSIVE CommaSep(_)
CommaSep(fs) == IF fs = <<>> THEN <<>>
                ELSE IF Len(fs) = 1 THEN <<fs[1]>>
                ELSE <<fs[1], Tk(",")>> \o CommaSep(Tail(fs))

(***************************************************************************)
(* Shapes of the tree-sitter-python grammar used by the processor          *)
(***************************************************************************)
Id(name)            == Leaf("identifier", name)
IntLit(t)           == Leaf("integer", t)
PassStmt            == Leaf("pass_statement", "pass")
ExprStmt(e)         == Comp("expression_statement", <<e>>, <<>>)
ArgList(args)       == Comp("argument_list", <<Tk("(")>> \o CommaSep(args) \o <<Tk(")")>>, <<>>)
Call(fn, args)      == Comp("call", <<fn, ArgList(args)>>, [function |-> 1, arguments |-> 2])
Attr(obj, name)     == Comp("attribute", <<obj, Tk("."), Id(name)>>, [object |-> 1, attribute |-> 3])
BinOp(l, op, r)     == Comp("binary_operator", <<l, Tk(op), r>>, [left |-> 1, operator |-> 2, right |-> 3])
BinOpSp(l, op, r)   == Comp("binary_operator", <<l, Sp(Tk(op)), Ws(<<" ", " ">>, r)>>,
                            [left |-> 1, operator |-> 2, right |-> 3])
Assign(l, r)        == Comp("assignment", <<l, Sp(Tk("=")), Sp(r)>>, [left |-> 1, right |-> 3])
AnnAssign(l, ty, r) == Comp("assignment",
                            <<l, Tk(":"), Sp(Comp("type", <<Id(ty)>>, <<>>)), Sp(Tk("=")), Sp(r)>>,
                            [left |-> 1, type |-> 3, right |-> 5])
AugAssign(l, r)     == Comp("augmented_assignment", <<l, Sp(Tk("+=")), Sp(r)>>,
                            [left |-> 1, operator |-> 2, right |-> 3])
TypedParam(n, ty)   == Comp("typed_parameter",
                            <<Id(n), Tk(":"), Sp(Comp("type", <<Id(ty)>>, <<>>))>>, [type |-> 3])
DefaultParam(n, v)  == Comp("default_parameter", <<Id(n), Tk("="), v>>, [name |-> 1, value |-> 3])
Params(ps)          == Comp("parameters", <<Tk("(")>> \o CommaSep(ps) \o <<Tk(")")>>, <<>>)
Block1(stmt)        == Comp("block", <<stmt>>, <<>>)
Block2(s1, s2)      == Comp("block", <<s1, NlIndent(s2)>>, <<>>)
\* def name(params): stmt
FuncDef(name, ps, body) ==
    Comp("function_definition",
         <<Tk("def"), Sp(Id(name)), Params(ps), Tk(":"), Sp(body)>>,
         [name |-> 2, parameters |-> 3, body |-> 5])
\* class name: stmt      (the body on the same line)
ClassDef(name, body) ==
    Comp("class_definition", <<Tk("class"), Sp(Id(name)), Tk(":"), Sp(body)>>,
         [name |-> 2, body |-> 4])
\* class name:           (the body on the next line)
\*  stmt
ClassDefNl(name, body) ==
    Comp("class_definition", <<Tk("class"), Sp(Id(name)), Tk(":"), NlIndent(body)>>,
         [name |-> 2, body |-> 4])
DottedName(n)       == Comp("dotted_name", <<Id(n)>>, <<>>)
\* from mod import n1, n2
ImportFrom2(mod, n1, n2) ==
    Comp("import_from_statement",
         <<Tk("from"), Sp(DottedName(mod)), Sp(Tk("import")), Sp(DottedName(n1)),
           Tk(","), Sp(DottedName(n2))>>,
         [module_name |-> 2, name |-> 4])

\* def (params): stmt    (a function_definition the parser gave no name field)
FuncDefNoName(ps, body) ==
    Comp("function_definition", <<Tk("def"), Sp(Params(ps)), Tk(":"), Sp(body)>>,
         [parameters |-> 2, body |-> 4])
\* class : stmt          (a class_definition the parser gave no name field)
ClassDefNoName(body) ==
    Comp("class_definition", <<Tk("class"), Sp(Tk(":")), Sp(body)>>, [body |-> 3])
\* @d
\* definition
Decorated(d, definition) ==
    Comp("decorated_definition",
         <<Comp("decorator", <<Tk("@"), Id(d)>>, <<>>), Nl(definition)>>, [definition |-> 2])
\* s1; s2                (_simple_statements, a hidden rule of the grammar: the
\*                        tree shows its children in place of the node itself)
SimpleStatements(s1, s2) == Comp("_simple_statements", <<s1, Tk(";"), Sp(s2)>>, <<>>)
Hoist(kids) ==
    ConcatAll([i \in DOMAIN kids |->
                 IF kids[i].type = "_simple_statements" THEN kids[i].kids ELSE <<kids[i]>>])

\* a module: the top-level constructs, one per line
Module(stmts) ==
    LET Shown(m) == [m EXCEPT !.tree.kids = Hoist(@)]
    IN  Shown(Comp("module",
                   [i \in 1..Len(stmts) |-> IF i = 1 THEN stmts[i] ELSE Nl(stmts[i])], <<>>))

\* bytes.decode + str.splitlines
RECURSIVE SplitLines(_, _, _)
SplitLines(s, cur, acc) ==
    IF s = <<>> THEN (IF cur = <<>> THEN acc ELSE Append(acc, cur))
    ELSE IF Head(s) = "\n" THEN SplitLines(Tail(s), <<>>, Append(acc, cur))
         ELSE SplitLines(Tail(s), Append(cur, Head(s)), acc)
splitlines(s) == SplitLines(s, <<>>, <<>>)

\* str.strip
RECURSIVE LStrip(_)
LStrip(s) == IF s /= <<>> /\ IsSpace(Head(s)) THEN LStrip(Tail(s)) ELSE s
RECURSIVE RStrip(_)
RStrip(s) == IF s /= <<>> /\ IsSpace(s[Len(s)]) THEN RStrip(SubSeq(s, 1, Len(s) - 1)) ELSE s
strip(s) == RStrip(LStrip(s))


(***************************************************************************)
(* Python values                                                           *)
(***************************************************************************)
None == <<>>                     \* NodeIDs and names are never empty

\* dict: insertion ordered, one entry per key
DictHas(d, k)    == \E i \in DOMAIN d : d[i].k = k
DictGet(d, k)    == d[CHOOSE i \in DOMAIN d : d[i].k = k].v
DictSet(d, k, v) == IF DictHas(d, k)
                    THEN [i \in DOMAIN d |-> IF d[i].k = k THEN [k |-> k, v |-> v] ELSE d[i]]
                    ELSE Append(d, [k |-> k, v |-> v])
RECURSIVE DictUpdate(_, _)
DictUpdate(d, e) == IF e = <<>> THEN d
                    ELSE DictUpdate(DictSet(d, Head(e).k, Head(e).v), Tail(e))
Keys(d)   == {d[i].k : i \in DOMAIN d}
Values(d) == {d[i].v : i \in DOMAIN d}
Elems(q)  == {q[i] : i \in DOMAIN q}

(***************************************************************************)
(* models/nodes, models/edges                                              *)
(***************************************************************************)
DataFlowDefinedBy(src, dst, operation) ==
    [rel |-> "DataFlowDefinedBy", src |-> src, dst |-> dst, operation |-> operation]
DataFlowFlowsTo(src, dst) == [rel |-> "DataFlowFlowsTo", src |-> src, dst |-> dst]
CallGraphCalls(src, dst) ==
    [rel |-> "CallGraphCalls", src |-> src, dst |-> dst, is_direct |-> TRUE, call_depth |-> 0]
CallGraphCalledBy(src, dst) == [rel |-> "CallGraphCalledBy", src |-> src, dst |-> dst]

(***************************************************************************)
(* services/cpg_parser/ts_parser/node_processor.py                         *)
(*                                                                         *)
(* st is the NodeProcessor object: its fields path and source, its private *)
(* scope and caller stacks, visited_node_ids, and err, the exception that  *)
(* is propagating ("" if none).  A result is what a method returns (nodes, *)
(* edges) together with the object after the call.                         *)
(***************************************************************************)
NewProcessor(p, source) ==
    [path |-> p, source |-> source, scope_stack |-> << <<>> >>, caller_stack |-> <<>>,
     visited_node_ids |-> {}, err |-> ""]

Result(ns, es, st) == [nodes |-> ns, edges |-> es, st |-> st]

push_scope(st) == [st EXCEPT !.scope_stack = Append(@, <<>>)]
pop_scope_unguarded(st) == [st EXCEPT !.scope_stack = SubSeq(@, 1, Len(@) - 1)]
pop_scope(st)  == IF Len(st.scope_stack) <= 1 THEN st
                  ELSE [st EXCEPT !.scope_stack = SubSeq(@, 1, Len(@) - 1)]
push_caller(st, node_id) == [st EXCEPT !.caller_stack = Append(@, node_id)]
pop_caller(st) == IF st.caller_stack = <<>> THEN st
                  ELSE [st EXCEPT !.caller_stack = SubSeq(@, 1, Len(@) - 1)]
current_caller_id_or_module(st) ==
    IF st.caller_stack = <<>> THEN NodeID_create("Module", <<"module">>, st.path, 0)
    ELSE st.caller_stack[Len(st.caller_stack)]
current_caller_id(st) == IF st.caller_stack = <<>> THEN None
                         ELSE st.caller_stack[Len(st.caller_stack)]

bind_symbol(st, name, node_id) ==
    LET Bind(normalized) ==
            IF normalized = <<>> THEN st
            ELSE [st EXCEPT !.scope_stack[Len(st.scope_stack)] = DictSet(@, normalized, node_id)]
    IN  Bind(normalize_name(name))

RECURSIVE ResolveFrom(_, _, _)
ResolveFrom(stack, i, normalized) ==
    IF i = 0 THEN None
    ELSE IF DictHas(stack[i], normalized) THEN DictGet(stack[i], normalized)
    ELSE ResolveFrom(stack, i - 1, normalized)
resolve_symbol_outermost(st, name) ==
    ResolveFrom(<<st.scope_stack[1]>>, 1, normalize_name(name))
resolve_symbol(st, name) ==
    ResolveFrom(st.scope_stack, Len(st.scope_stack), normalize_name(name))

get_snippet(st, n) == SubSeq(st.source, n.sb + 1, n.eb)
visit(st, node_id) == [st EXCEPT !.visited_node_ids = @ \cup {node_id}]

is_top_level_statement(n) ==
    /\ n.named
    /\ n.type \notin {"module", "function_definition", "class_definition",
                      "import_statement", "import_from_statement", "decorated_definition"}

RECURSIVE IterBlocks(_, _, _, _)
IterBlocks(kids, i, current_block, blocks) ==
    IF i > Len(kids)
    THEN (IF current_block /= <<>> THEN Append(blocks, current_block) ELSE blocks)
    ELSE IF is_top_level_statement(kids[i])
         THEN IterBlocks(kids, i + 1, Append(current_block, kids[i]), blocks)
         ELSE IterBlocks(kids, i + 1, <<>>,
                         IF current_block /= <<>> THEN Append(blocks, current_block) ELSE blocks)
iter_top_level_blocks(module_node) == IterBlocks(module_node.kids, 1, <<>>, <<>>)

top_level_block_name(st, block_nodes) ==
    LET first_node == block_nodes[1]
        FirstLine(snippet) == IF snippet /= <<>> THEN splitlines(snippet)[1] ELSE <<>>
        Name(lines) ==
            IF first_node.sl < Len(lines)
            THEN normalize_name(strip(lines[first_node.sl + 1]))
            ELSE normalize_name(strip(FirstLine(get_snippet(st, first_node))))
    IN  Name(splitlines(st.source))

code_block_id(st, block_nodes) ==
    NodeID_create("code_block", top_level_block_name(st, block_nodes), st.path,
                  block_nodes[1].sb)

\* NodeProcessor.__create_code_block_node.  The node is built from the four
\* keyword arguments the method passes (as the tests of the module build it).
create_code_block_node(st, block_nodes) ==
    [cls |-> "CodeBlockNode", identifier |-> code_block_id(st, block_nodes),
     line_start |-> block_nodes[1].sl + 1,
     line_end |-> block_nodes[Len(block_nodes)].el + 1,
     file_path |-> st.path]

get_node_id(st, type_, module_name, n) == NodeID_create(type_, module_name, st.path, n.sb)

RECURSIVE RegisterFrom(_, _, _)
RegisterFrom(st, kids, i) ==
    IF i > Len(kids) THEN st
    ELSE LET child == kids[i]
             node_type == IF child.type = "function_definition" THEN "Function" ELSE "Class"
             Bind(name) ==
                 RegisterFrom(bind_symbol(st, name, get_node_id(st, node_type, name, child)),
                              kids, i + 1)
         IN
         IF child.type \notin {"function_definition", "class_definition"} \/ ~HasField(child, "name")
         THEN RegisterFrom(st, kids, i + 1)
         ELSE Bind(normalize_name(get_snippet(st, Field(child, "name"))))
RECURSIVE RegisterVariables(_, _, _)
RegisterVariables(st, kids, i) ==
    IF i > Len(kids) THEN st
    ELSE IF /\ kids[i].type = "expression_statement"
            /\ kids[i].kids[1].type \in {"assignment", "augmented_assignment"}
            /\ Field(kids[i].kids[1], "left").type = "identifier"
            /\ resolve_symbol(st, get_snippet(st, Field(kids[i].kids[1], "left"))) = None
         THEN RegisterVariables(
                  bind_symbol(st, get_snippet(st, Field(kids[i].kids[1], "left")),
                              NodeID_create("variable",
                                            get_snippet(st, Field(kids[i].kids[1], "left")),
                                            st.path, Field(kids[i].kids[1], "left").sb)),
                  kids, i + 1)
         ELSE RegisterVariables(st, kids, i + 1)
register_symbols_and_variables(st, module_node) ==
    RegisterVariables(RegisterFrom(st, module_node.kids, 1), module_node.kids, 1)
register_top_level_symbols(st, module_node) == RegisterFrom(st, module_node.kids, 1)

RECURSIVE iter_identifiers(_, _)
iter_identifiers(n, parent) ==
    (IF n.type = "identifier" THEN << [node |-> n, parent |-> parent] >> ELSE <<>>)
    \o ConcatAll([i \in DOMAIN n.kids |-> iter_identifiers(n.kids[i], n)])

Atom(st, kind, n) == [kind |-> kind, text |-> normalize_name(get_snippet(st, n)), atom |-> n]

RECURSIVE iter_source_atoms(_, _)
iter_source_atoms(st, n) ==
    IF n.type = "identifier" THEN << Atom(st, "identifier", n) >>
    ELSE IF n.type = "attribute" THEN << Atom(st, "attribute", n) >>
    ELSE IF n.type = "call"
    THEN << Atom(st, "call", n) >>
         \o ConcatAll([i \in DOMAIN n.kids |->
                         IF HasField(n, "function") /\ i = n.fields["function"] THEN <<>>
                         ELSE iter_source_atoms(st, n.kids[i])])
    ELSE ConcatAll([i \in DOMAIN n.kids |-> iter_source_atoms(st, n.kids[i])])

RECURSIVE iter_argument_atoms(_, _)
iter_argument_atoms(st, n) ==
    IF n.type = "keyword_argument"
    THEN (IF HasField(n, "value") THEN iter_argument_atoms(st, Field(n, "value")) ELSE <<>>)
    ELSE IF n.type = "identifier" THEN << Atom(st, "identifier", n) >>
    ELSE IF n.type = "attribute" THEN << Atom(st, "attribute", n) >>
    ELSE IF n.type = "call" THEN << Atom(st, "call", n) >>
    ELSE ConcatAll([i \in DOMAIN n.kids |-> iter_argument_atoms(st, n.kids[i])])

RECURSIVE iter_assignment_targets(_, _)
iter_assignment_targets(st, n) ==
    IF n.type \in {"identifier", "subscript", "attribute"}
    THEN << [name |-> normalize_name(get_snippet(st, n)), node |-> n] >>
    ELSE ConcatAll([i \in DOMAIN n.kids |-> iter_assignment_targets(st, n.kids[i])])

resolve_call_target(st, call_node) ==
    IF ~HasField(call_node, "function") THEN None
    ELSE LET function_node == Field(call_node, "function")
             Target(resolved) ==
                 IF function_node.type = "identifier"
                    /\ resolved /= None /\ StartsWith(resolved, <<"function", ":">>)
                 THEN resolved
                 ELSE None
         IN  Target(resolve_symbol(st, normalize_name(get_snippet(st, function_node))))

create_call_node(st, call_node, caller_id, callee_id) ==
    [cls |-> "CallNode",
     identifier |-> NodeID_create("call", normalize_name(get_snippet(st, call_node)),
                                  st.path, call_node.sb),
     caller_id |-> caller_id, callee_id |-> callee_id,
     line_start |-> call_node.sl + 1, line_end |-> call_node.el + 1,
     file_path |-> st.path]

add_call_edges(es, caller_id, call_id, callee_id) ==
    es \o << CallGraphCalls(caller_id, call_id), CallGraphCalledBy(call_id, callee_id) >>

create_variable_node(st, kind, name, n, type_hint) ==
    LET Node(normalized_name) ==
            [cls |-> "VariableNode",
             identifier |-> NodeID_create(kind, normalized_name, st.path, n.sb),
             name |-> normalized_name, type_hint |-> type_hint,
             line_start |-> n.sl + 1, line_end |-> n.el + 1, file_path |-> st.path]
    IN  Node(normalize_name(name))

RECURSIVE DistinctRanges(_, _, _)
DistinctRanges(identifiers, seen, ordered) ==
    IF identifiers = <<>> THEN ordered
    ELSE LET ident == Head(identifiers)
             key   == <<ident.node.sb, ident.node.eb>>
         IN  IF key \in seen THEN DistinctRanges(Tail(identifiers), seen, ordered)
             ELSE DistinctRanges(Tail(identifiers), seen \cup {key}, Append(ordered, ident))

collect_parameter_identifiers(n) ==
    IF ~HasField(n, "parameters") THEN <<>>
    ELSE LET parameters_node == Field(n, "parameters")
         IN  DistinctRanges(
                 ConcatAll([i \in DOMAIN parameters_node.kids |->
                              iter_identifiers(parameters_node.kids[i], parameters_node)]),
                 {}, <<>>)


RECURSIVE process(_, _), process_children(_, _, _, _), process_function(_, _),
          process_class(_, _), process_call(_, _), process_assignment(_, _)

\* NodeProcessor.__add_argument_dataflow_edges, its loop over the argument atoms.
\* acc: the nodes and edges of the caller, the processor, seen_sources, source_ids
RECURSIVE ArgumentLoop(_, _, _, _)
ArgumentLoop(atoms, i, caller_id, acc) ==
    IF i > Len(atoms) THEN acc
    ELSE LET a  == atoms[i]
             st == acc.st
             AddSource(id) ==
                 IF id \notin acc.seen
                 THEN [acc EXCEPT !.source_ids = Append(@, id), !.seen = @ \cup {id}]
                 ELSE acc
             AddReference(ref) ==
                 IF ref.identifier \notin acc.seen
                 THEN [acc EXCEPT !.nodes = DictSet(@, ref.identifier, ref),
                                  !.st = visit(@, ref.identifier),
                                  !.source_ids = Append(@, ref.identifier),
                                  !.seen = @ \cup {ref.identifier}]
                 ELSE acc
             Variable(resolved) ==
                 IF resolved /= None THEN AddSource(resolved)
                 ELSE AddReference(create_variable_node(st, "variable_ref", a.text, a.atom, <<>>))
             AddCallSource(id, acc1) ==
                 IF id \notin acc1.seen
                 THEN [acc1 EXCEPT !.source_ids = Append(@, id), !.seen = @ \cup {id}]
                 ELSE acc1
             AddCall(nested_target_id, nested_call_node) ==
                 AddCallSource(nested_call_node.identifier,
                     IF nested_call_node.identifier \notin Keys(acc.nodes)
                     THEN [acc EXCEPT !.nodes = DictSet(@, nested_call_node.identifier,
                                                        nested_call_node),
                                      !.st = visit(@, nested_call_node.identifier),
                                      !.edges = add_call_edges(@, caller_id,
                                                               nested_call_node.identifier,
                                                               nested_target_id)]
                     ELSE acc)
             NestedCall(nested_target_id) ==
                 IF nested_target_id = None THEN acc
                 ELSE AddCall(nested_target_id,
                              create_call_node(st, a.atom, caller_id, nested_target_id))
         IN
         IF a.text = <<>> THEN ArgumentLoop(atoms, i + 1, caller_id, acc)
         ELSE IF a.kind \in {"identifier", "attribute"}
         THEN ArgumentLoop(atoms, i + 1, caller_id, Variable(resolve_symbol(st, a.text)))
         ELSE ArgumentLoop(atoms, i + 1, caller_id, NestedCall(resolve_call_target(st, a.atom)))

\* NodeProcessor.__add_argument_dataflow_edges
add_argument_dataflow_edges(st, call_ts_node, call_node_id, caller_id, ns, es) ==
    IF ~HasField(call_ts_node, "arguments") THEN Result(ns, es, st)
    ELSE LET FlowsTo(acc) ==
                 Result(acc.nodes,
                        acc.edges \o [j \in DOMAIN acc.source_ids |->
                                        DataFlowFlowsTo(acc.source_ids[j], call_node_id)],
                        acc.st)
         IN  FlowsTo(ArgumentLoop(iter_argument_atoms(st, Field(call_ts_node, "arguments")),
                                  1, caller_id,
                                  [nodes |-> ns, edges |-> es, st |-> st,
                                   seen |-> {}, source_ids |-> <<>>]))

\* a variant that creates a new variable at every assignment
get_or_create_defined_variable_always(st, name, n, type_hint) ==
    LET Create(var) ==
            [id |-> var.identifier, created |-> var,
             st |-> bind_symbol(st, var.name, var.identifier)]
    IN  Create(create_variable_node(st, "variable", name, n, type_hint))

\* NodeProcessor.__get_or_create_defined_variable
get_or_create_defined_variable(st, name, n, type_hint) ==
    LET innermost == st.scope_stack[Len(st.scope_stack)]
        Create(var) ==
            [id |-> var.identifier, created |-> var,
             st |-> bind_symbol(st, var.name, var.identifier)]
        GetOrCreate(normalized) ==
            IF DictHas(innermost, normalized)
            THEN [id |-> DictGet(innermost, normalized), created |-> None, st |-> st]
            ELSE Create(create_variable_node(st, "variable", normalized, n, type_hint))
    IN  GetOrCreate(normalize_name(name))

\* the loop "for child in ...: process(child); nodes.update(...); edges.extend(...)"
process_children(st, kids, i, acc) ==
    IF i > Len(kids) THEN [acc EXCEPT !.st = st]
    ELSE LET Merge(r) ==
                 process_children(r.st, kids, i + 1,
                                  [acc EXCEPT !.nodes = DictUpdate(@, r.nodes),
                                              !.edges = @ \o r.edges])
         IN  Merge(process(st, kids[i]))

\* NodeProcessor._process_function, its loop over the parameters
RECURSIVE ParameterLoop(_, _, _, _)
ParameterLoop(params, i, function_id, acc) ==
    IF i > Len(params) THEN acc
    ELSE LET param      == params[i].node
             parent     == params[i].parent
             param_type == IF HasField(parent, "type")
                           THEN normalize_name(get_snippet(acc.st, Field(parent, "type")))
                           ELSE <<>>
             Add(param_var) ==
                 ParameterLoop(params, i + 1, function_id,
                     Result(DictSet(acc.nodes, param_var.identifier, param_var),
                            Append(acc.edges,
                                   DataFlowDefinedBy(function_id, param_var.identifier,
                                                     "parameter")),
                            bind_symbol(visit(acc.st, param_var.identifier),
                                        param_var.name, param_var.identifier)))
         IN  Add(create_variable_node(acc.st, "variable",
                                      normalize_name(get_snippet(acc.st, param)), param,
                                      param_type))

\* NodeProcessor._process_function
process_function(st, n) ==
    IF ~HasField(n, "name") THEN Result(<<>>, <<>>, st)
    ELSE LET Leave(b) == IF b.st.err /= "" THEN b
                         ELSE [b EXCEPT !.st = pop_scope(pop_caller(b.st))]
             Body(p) == IF HasField(n, "body")
                        THEN process_children(p.st, Field(n, "body").kids, 1, p)
                        ELSE p
             Enter(name, node_id) ==
                 Leave(Body(ParameterLoop(
                     collect_parameter_identifiers(n), 1, node_id,
                     Result(<< [k |-> node_id,
                                v |-> [cls |-> "FunctionNode", identifier |-> node_id,
                                       name |-> name, line_start |-> n.sl + 1,
                                       line_end |-> n.el + 1, file_path |-> st.path]] >>,
                            <<>>,
                            push_caller(push_scope(bind_symbol(visit(st, node_id), name,
                                                               node_id)),
                                        node_id)))))
             Named(name) == Enter(name, get_node_id(st, "Function", name, n))
         IN  Named(normalize_name(get_snippet(st, Field(n, "name"))))

\* a variant without the early return on an unresolved callee
process_call_unchecked(st, n) ==
    LET caller_id == current_caller_id(st)
        Children(a) == process_children(a.st, n.kids, 1, a)
        Visit(callee_id, call_node) ==
            Children(add_argument_dataflow_edges(
                         visit(st, call_node.identifier), n, call_node.identifier, caller_id,
                         << [k |-> call_node.identifier, v |-> call_node] >>,
                         add_call_edges(<<>>, caller_id, call_node.identifier, callee_id)))
        Resolved(callee_id) == Visit(callee_id, create_call_node(st, n, caller_id, callee_id))
    IN  IF caller_id = None THEN Result(<<>>, <<>>, st)
        ELSE Resolved(resolve_call_target(st, n))

\* NodeProcessor._process_call
process_call(st, n) ==
    LET caller_id == current_caller_id(st)
        Children(a) == process_children(a.st, n.kids, 1, a)
        Visit(callee_id, call_node) ==
            Children(add_argument_dataflow_edges(
                         visit(st, call_node.identifier), n, call_node.identifier, caller_id,
                         << [k |-> call_node.identifier, v |-> call_node] >>,
                         add_call_edges(<<>>, caller_id, call_node.identifier, callee_id)))
        Resolved(callee_id) ==
            IF callee_id = None THEN Result(<<>>, <<>>, st)
            ELSE Visit(callee_id, create_call_node(st, n, caller_id, callee_id))
    IN  IF caller_id = None THEN Result(<<>>, <<>>, st)
        ELSE Resolved(resolve_call_target(st, n))

ProcessableNodeTypes ==
    {"function_definition", "class_definition", "import_statement", "import_from_statement",
     "call", "block", "assignment", "expression_statement"}

\* NodeProcessor._process_class; class_node is None when it raised
process_class(st, n) ==
    IF ~HasField(n, "name")
    THEN [class_node |-> None, nodes |-> <<>>, edges |-> <<>>,
          st |-> [st EXCEPT !.err = "ValueError: Class node missing name field"]]
    ELSE LET name_node == Field(n, "name")
             processable == SelectSeq(n.kids, LAMBDA c : c.type \in ProcessableNodeTypes)
             Leave(class_node, r) ==
                 [class_node |-> class_node, nodes |-> r.nodes, edges |-> r.edges, st |-> r.st]
             Body(class_node, st1) ==
                 Leave(class_node, process_children(st1, processable, 1, Result(<<>>, <<>>, st1)))
             Enter(name, node_id) ==
                 Body([cls |-> "ClassNode", identifier |-> node_id, name |-> name,
                       file_path |-> st.path, line_start |-> name_node.sl + 1,
                       line_end |-> IF HasField(n, "superclasses")
                                    THEN Field(n, "superclasses").el + 1
                                    ELSE name_node.el + 1],
                      bind_symbol(visit(st, node_id), normalize_name(name), node_id))
             Named(name) == Enter(name, get_node_id(st, "Class", name, n))
         IN  Named(get_snippet(st, name_node))

\* NodeProcessor._process_assignment, its loop over the source atoms
RECURSIVE SourceLoop(_, _, _)
SourceLoop(atoms, i, acc) ==
    IF i > Len(atoms) THEN acc
    ELSE LET a  == atoms[i]
             st == acc.st
             caller_id == current_caller_id(st)
             AddSource(id) ==
                 IF id \notin acc.seen
                 THEN [acc EXCEPT !.source_ids = Append(@, id), !.seen = @ \cup {id}]
                 ELSE acc
             AddReference(ref) ==
                 IF ref.identifier \notin acc.seen
                 THEN [acc EXCEPT !.nodes = DictSet(@, ref.identifier, ref),
                                  !.st = visit(@, ref.identifier),
                                  !.source_ids = Append(@, ref.identifier),
                                  !.seen = @ \cup {ref.identifier}]
                 ELSE acc
             Variable(resolved) ==
                 IF resolved /= None THEN AddSource(resolved)
                 ELSE AddReference(create_variable_node(st, "variable_ref", a.text, a.atom, <<>>))
             Arguments(acc1, r) ==
                 [acc1 EXCEPT !.nodes = r.nodes, !.edges = r.edges, !.st = r.st]
             AddCall(id, target_id, acc1) ==
                 Arguments(acc1,
                     add_argument_dataflow_edges(
                         acc1.st, a.atom, id, caller_id, acc1.nodes,
                         add_call_edges(acc1.edges, caller_id, id, target_id)))
             CallSite(target_id, call_node) ==
                 AddCall(call_node.identifier, target_id,
                     IF call_node.identifier \notin acc.seen
                     THEN [acc EXCEPT !.nodes = DictSet(@, call_node.identifier, call_node),
                                      !.st = visit(@, call_node.identifier),
                                      !.source_ids = Append(@, call_node.identifier),
                                      !.seen = @ \cup {call_node.identifier}]
                     ELSE acc)
             Resolved(target_id) ==
                 IF caller_id = None \/ target_id = None THEN acc
                 ELSE CallSite(target_id, create_call_node(st, a.atom, caller_id, target_id))
         IN
         IF a.text = <<>> THEN SourceLoop(atoms, i + 1, acc)
         ELSE IF a.kind \in {"identifier", "attribute"}
         THEN SourceLoop(atoms, i + 1, Variable(resolve_symbol(st, a.text)))
         ELSE SourceLoop(atoms, i + 1, Resolved(resolve_call_target(st, a.atom)))

\* NodeProcessor._process_assignment, the previous values of an augmented assignment
RECURSIVE PreviousLoop(_, _, _, _)
PreviousLoop(targets, i, n, acc) ==
    IF i > Len(targets) THEN acc
    ELSE LET AddReference(src_prev) ==
                 IF src_prev.identifier \notin acc.seen
                 THEN [acc EXCEPT !.nodes = DictSet(@, src_prev.identifier, src_prev),
                                  !.st = visit(@, src_prev.identifier),
                                  !.source_ids = Append(@, src_prev.identifier),
                                  !.seen = @ \cup {src_prev.identifier}]
                 ELSE acc
             Previous(resolved_prev) ==
                 IF resolved_prev /= None /\ resolved_prev \notin acc.seen
                 THEN [acc EXCEPT !.source_ids = Append(@, resolved_prev),
                                  !.seen = @ \cup {resolved_prev}]
                 ELSE AddReference(create_variable_node(acc.st, "variable_ref",
                                                        targets[i].name, n, <<>>))
         IN  PreviousLoop(targets, i + 1, n, Previous(resolve_symbol(acc.st, targets[i].name)))

\* a variant that does not return the variables it creates
RECURSIVE TargetLoop_unrecorded(_, _, _, _)
TargetLoop_unrecorded(targets, i, type_hint, acc) ==
    IF i > Len(targets) THEN acc
    ELSE LET Define(g) ==
                 TargetLoop_unrecorded(targets, i + 1, type_hint,
                     [acc EXCEPT
                        !.st    = g.st,
                        !.edges = @ \o [j \in DOMAIN acc.source_ids |->
                                          DataFlowDefinedBy(acc.source_ids[j], g.id,
                                                            "assignment")]])
         IN  Define(get_or_create_defined_variable(acc.st, targets[i].name, targets[i].node,
                                                   type_hint))

\* NodeProcessor._process_assignment, its loop over the targets
RECURSIVE TargetLoop(_, _, _, _)
TargetLoop(targets, i, type_hint, acc) ==
    IF i > Len(targets) THEN acc
    ELSE LET Define(g) ==
                 TargetLoop(targets, i + 1, type_hint,
                     [acc EXCEPT
                        !.nodes = IF g.created /= None
                                  THEN DictSet(@, g.created.identifier, g.created) ELSE @,
                        !.st    = IF g.created /= None
                                  THEN visit(g.st, g.created.identifier) ELSE g.st,
                        !.edges = @ \o [j \in DOMAIN acc.source_ids |->
                                          DataFlowDefinedBy(acc.source_ids[j], g.id,
                                                            "assignment")]])
         IN  Define(get_or_create_defined_variable(acc.st, targets[i].name, targets[i].node,
                                                   type_hint))

\* NodeProcessor._process_assignment
process_assignment(st, n) ==
    IF ~HasField(n, "left") \/ ~HasField(n, "right") THEN Result(<<>>, <<>>, st)
    ELSE LET type_hint == IF HasField(n, "type")
                          THEN normalize_name(get_snippet(st, Field(n, "type"))) ELSE <<>>
             Return(t) == Result(t.nodes, t.edges, t.st)
             Previous(targets, s) ==
                 IF n.type = "augmented_assignment" THEN PreviousLoop(targets, 1, n, s) ELSE s
             Assign_(targets) ==
                 IF targets = <<>> THEN Result(<<>>, <<>>, st)
                 ELSE Return(TargetLoop(targets, 1, type_hint,
                          Previous(targets,
                              SourceLoop(iter_source_atoms(st, Field(n, "right")), 1,
                                         [nodes |-> <<>>, edges |-> <<>>, st |-> st,
                                          seen |-> {}, source_ids |-> <<>>]))))
         IN  Assign_(iter_assignment_targets(st, Field(n, "left")))

\* NodeProcessor.process for a node that is not the module
process(st, n) ==
    IF st.err /= "" THEN Result(<<>>, <<>>, st)
    ELSE IF n.type = "function_definition" THEN process_function(st, n)
    ELSE IF n.type = "class_definition"
    THEN LET Emit(c) ==
                 IF c.st.err /= "" THEN Result(<<>>, <<>>, c.st)
                 ELSE Result(DictSet(c.nodes, c.class_node.identifier, c.class_node),
                             c.edges \o [j \in DOMAIN c.nodes |->
                                           DataFlowDefinedBy(c.class_node.identifier,
                                                             c.nodes[j].k, "assignment")],
                             c.st)
         IN  Emit(process_class(st, n))
    ELSE IF n.type \in {"assignment", "augmented_assignment", "annotated_assignment"}
    THEN process_assignment(st, n)
    ELSE IF n.type = "call" THEN process_call(st, n)
    ELSE process_children(st, n.kids, 1, Result(<<>>, <<>>, st))

\* NodeProcessor.process(module), lines 508-512: one CodeBlockNode per top-level run
RECURSIVE CodeBlockLoop(_, _, _)
CodeBlockLoop(blocks, i, acc) ==
    IF i > Len(blocks) THEN acc
    ELSE LET Add(code_block) ==
                 CodeBlockLoop(blocks, i + 1,
                     [acc EXCEPT !.nodes = DictSet(@, code_block.identifier, code_block),
                                 !.st = visit(@, code_block.identifier)])
         IN  Add(create_code_block_node(acc.st, blocks[i]))
module_code_blocks(acc, module_node) ==
    CodeBlockLoop(iter_top_level_blocks(module_node), 1, acc)

\* NodeProcessor.process(module), line 514
module_register(acc, module_node) ==
    [acc EXCEPT !.st = register_top_level_symbols(acc.st, module_node)]

\* NodeProcessor.process(module), lines 516-521: one iteration of the loop over children
module_child(acc, child) ==
    IF is_top_level_statement(child) THEN acc
    ELSE LET Merge(r) == Result(DictUpdate(acc.nodes, r.nodes), acc.edges \o r.edges, r.st)
         IN  Merge(process(acc.st, child))

\* NodeProcessor.process(module), lines 523-537: one iteration of the loop over the runs
module_block(acc, block_nodes) ==
    LET Leave(r) == IF r.st.err /= "" THEN r ELSE [r EXCEPT !.st = pop_caller(r.st)]
        Enter(st1) == Leave(process_children(st1, block_nodes, 1, [acc EXCEPT !.st = st1]))
    IN  Enter(push_caller(acc.st, code_block_id(acc.st, block_nodes)))

RECURSIVE ModuleChildLoop(_, _, _)
ModuleChildLoop(kids, i, acc) ==
    IF i > Len(kids) THEN acc ELSE ModuleChildLoop(kids, i + 1, module_child(acc, kids[i]))
RECURSIVE ModuleBlockLoop(_, _, _)
ModuleBlockLoop(blocks, i, acc) ==
    IF i > Len(blocks) THEN acc ELSE ModuleBlockLoop(blocks, i + 1, module_block(acc, blocks[i]))

\* NodeProcessor.process(module)
process_module(st, module_node) ==
    ModuleBlockLoop(iter_top_level_blocks(module_node), 1,
        ModuleChildLoop(module_node.kids, 1,
            module_register(module_code_blocks(Result(<<>>, <<>>, st), module_node),
                            module_node)))

(***************************************************************************)
(* services/cpg_parser/ts_parser/cpg_builder.py: CPGFileBuilder            *)
(***************************************************************************)
\* CPGFileBuilder.model_post_init + build.  NodeProcessor declares no field
\* prebound_symbols, so the keyword argument given to it is dropped by pydantic
\* and the processor starts from an empty root scope.
CPGFileBuilder_build(display_path, frag, prebound_symbols) ==
    process_module(NewProcessor(display_path, frag.src), frag.tree)

(***************************************************************************)
(* Source texts                                                            *)
(***************************************************************************)
Item(id) ==
    CASE id = "def_g"   -> FuncDef("g", <<>>, Block1(PassStmt))
      [] id = "def_f2"  -> FuncDef("f", <<TypedParam("x", "int"), Sp(Id("y"))>>,
                                   Block1(ExprStmt(Call(Id("g"), <<Call(Id("g"), <<Id("y")>>)>>))))
      [] id = "def_fh"  -> FuncDef("f", <<>>,
                                   Block1(ExprStmt(Call(Id("h"), <<Call(Id("g"), <<>>)>>))))
      [] id = "a=1"     -> ExprStmt(Assign(Id("a"), IntLit("1")))
      [] id = "b=a"     -> ExprStmt(Assign(Id("b"), Id("a")))
      [] id = "c=a+b"   -> ExprStmt(Assign(Id("c"), BinOpSp(Id("a"), "+", Id("b"))))
      [] id = "a=hgh"   -> ExprStmt(Assign(Id("a"),
                               Call(Id("h"), <<Call(Id("g"), <<Call(Id("h"), <<Id("b")>>)>>)>>)))
      [] id = "a+=b"    -> ExprStmt(AugAssign(Id("a"), Id("b")))
      [] id = "g(a)"    -> ExprStmt(Call(Id("g"), <<Id("a")>>))
      [] id = "class_C" -> ClassDefNl("C", Block1(ExprStmt(Assign(Id("k"),
                                                                  Call(Id("g"), <<Id("a")>>)))))
      \* definitions: without a name, decorated, methods, attribute and constructor calls
      [] id = "def_"    -> FuncDefNoName(<<>>, Block1(PassStmt))
      [] id = "class_"  -> ClassDefNoName(Block1(PassStmt))
      [] id = "def_fc"  -> FuncDef("f", <<Id("x")>>, Block1(ClassDefNoName(Block1(PassStmt))))
      [] id = "class_A" -> ClassDefNl("A", Block1(FuncDef("g", <<Id("self")>>,
                                                          Block1(PassStmt))))
      [] id = "def_main" -> FuncDef("main", <<>>,
                                    Block2(ExprStmt(Assign(Id("a"), Call(Id("A"), <<>>))),
                                           ExprStmt(Call(Attr(Id("a"), "g"), <<>>))))
      [] id = "deco_g"  -> Decorated("d", FuncDef("g", <<>>, Block1(PassStmt)))
      [] id = "a=1;b=a" -> SimpleStatements(ExprStmt(Assign(Id("a"), IntLit("1"))),
                                            ExprStmt(Assign(Id("b"), Id("a"))))
      \* statements in class bodies and top-level runs, nested calls, rebinding
      [] id = "class_B" -> ClassDefNl("B", Block1(ExprStmt(Call(Id("g"), <<Id("a")>>))))
      [] id = "a=1;g(a)" -> SimpleStatements(ExprStmt(Assign(Id("a"), IntLit("1"))),
                                             ExprStmt(Call(Id("g"), <<Id("a")>>)))
      [] id = "a+=a"    -> ExprStmt(AugAssign(Id("a"), Id("a")))
      [] id = "g=a"     -> ExprStmt(Assign(Id("g"), Id("a")))
      [] id = "def_k"   -> FuncDef("k", <<>>, Block1(ExprStmt(Assign(Id("b"), Id("a")))))
      [] id = "g(g(a))" -> ExprStmt(Call(Id("g"), <<Call(Id("g"), <<Id("a")>>)>>))
      [] id = "b=g(g(a))" -> ExprStmt(Assign(Id("b"),
                                 Call(Id("g"), <<Call(Id("g"), <<Id("a")>>)>>)))
      \* a class nested in a function
      [] id = "def_fA"  -> FuncDef("f", <<>>, Block1(ClassDef("A", Block1(PassStmt))))
      \* texts of the directory catalogue
      [] id = "def_f"   -> FuncDef("f", <<>>, Block1(PassStmt))
      [] id = "K=1"     -> ExprStmt(Assign(Id("K"), IntLit("1")))
      [] id = "import"  -> ImportFrom2("provider", "f", "K")
      [] id = "f(K)"    -> ExprStmt(Call(Id("f"), <<Id("K")>>))
      [] id = "a=a@b"   -> ExprStmt(Assign(Id("a"), BinOp(Id("a"), "@", Id("b"))))
      [] id = "a=a"     -> ExprStmt(Assign(Id("a"), Id("a")))
      [] id = "("       -> Comp("ERROR", <<Tk("(")>>, <<>>)

FileMenu == {"def_g", "def_f2", "def_fh", "a=1", "b=a", "c=a+b", "a=hgh", "a+=b",
             "g(a)", "class_C"}

DefMenu == {"def_g", "def_f2", "def_", "class_", "def_fc", "class_A", "def_main", "deco_g",
            "a=1", "a=1;b=a", "import"}

StmtMenu == {"def_g", "class_C", "class_B", "g(a)", "a=1", "a=1;g(a)", "a+=b", "a+=a",
             "g=a", "def_k", "g(g(a))", "b=g(g(a))"}

IndexMenu == {"class_A", "def_g", "def_fA", "K=1"}

\* the source text and tree of the module made of the given constructs
ModuleOf(its) == Module([i \in 1..Len(its) |-> Item(its[i])])

SeqsUpTo(S, n) == UNION {[1..k -> S] : k \in 0..n}

FilePath == <<"m", ".py">>

(***************************************************************************)
(* CPGFileBuilder(path).build(), step by step through NodeProcessor.process*)
(***************************************************************************)
Tree   == file_tree
Source == file_source
\* the processor object and the locals nodes, edges of process(module)
Acc == Result(nodes, edges,
              [path |-> path, source |-> Source, scope_stack |-> scope_stack,
               caller_stack |-> caller_stack, visited_node_ids |-> visited_node_ids,
               err |-> IF pc = "raised" THEN "ValueError: Class node missing name field" ELSE ""])

SetAcc(acc, nextpc, i) ==
    /\ nodes' = acc.nodes
    /\ edges' = acc.edges
    /\ scope_stack' = acc.st.scope_stack
    /\ caller_stack' = acc.st.caller_stack
    /\ visited_node_ids' = acc.st.visited_node_ids
    /\ pc' = IF acc.st.err /= "" THEN "raised" ELSE nextpc
    /\ child_i' = i
    /\ UNCHANGED <<items, path, file_tree, file_source>>

FileIdle ==
    /\ items = <<>> /\ path = <<>> /\ pc = "idle" /\ child_i = 0
    /\ file_tree = <<>> /\ file_source = <<>>
    /\ scope_stack = <<>> /\ caller_stack = <<>> /\ visited_node_ids = {}
    /\ nodes = <<>> /\ edges = <<>>
IdIdle  == id_args = <<>> /\ id_out = <<>>
ScopeIdle  == scope_op = <<>> /\ scope_result = <<>>
RenderIdle ==
    /\ token_budget = 0 /\ token_estimator = <<>> /\ finding = <<>> /\ context_nodes = <<>>
    /\ render_parts = <<>> /\ total_tokens = 0 /\ node_i = 0 /\ render_pc = "idle"
PipeIdle   == pipe_pc = "idle" /\ pipe_log = <<>>
ImportIdle == import_args = <<>> /\ import_out = <<>>
ExtIdle    == ScopeIdle /\ RenderIdle /\ PipeIdle /\ ImportIdle
DirIdle ==
    /\ files = {} /\ on_error = "raise" /\ link_imports = FALSE /\ listing = <<>>
    /\ python_files = <<>> /\ phase = "idle" /\ file_i = 0 /\ symbol_index = <<>>
    /\ merged_nodes = <<>> /\ merged_edges = <<>> /\ raised = "" /\ run = 0
    /\ first_result = <<>>

InitFile ==
    /\ items \in SeqsUpTo(FileMenu, MaxItems)
    /\ path = FilePath
    /\ \E m \in {ModuleOf(items)} : file_tree = m.tree /\ file_source = m.src
    /\ pc = "code_blocks" /\ child_i = 0
    /\ scope_stack = << <<>> >> /\ caller_stack = <<>> /\ visited_node_ids = {}
    /\ nodes = <<>> /\ edges = <<>>
    /\ IdIdle /\ DirIdle /\ ExtIdle

CodeBlocks ==
    /\ pc = "code_blocks"
    /\ SetAcc(module_code_blocks(Acc, Tree), "register", 0)
    /\ UNCHANGED <<idVars, dirVars, extVars>>

Register ==
    /\ pc = "register"
    /\ SetAcc(module_register(Acc, Tree), "children", 1)
    /\ UNCHANGED <<idVars, dirVars, extVars>>

Child ==
    /\ pc = "children" /\ child_i <= Len(Tree.kids)
    /\ SetAcc(module_child(Acc, Tree.kids[child_i]), "children", child_i + 1)
    /\ UNCHANGED <<idVars, dirVars, extVars>>

ChildrenDone ==
    /\ pc = "children" /\ child_i > Len(Tree.kids)
    /\ SetAcc(Acc, "blocks", 1)
    /\ UNCHANGED <<idVars, dirVars, extVars>>

Block ==
    /\ pc = "blocks" /\ child_i <= Len(iter_top_level_blocks(Tree))
    /\ SetAcc(module_block(Acc, iter_top_level_blocks(Tree)[child_i]), "blocks", child_i + 1)
    /\ UNCHANGED <<idVars, dirVars, extVars>>

ReturnFile ==
    /\ pc = "blocks" /\ child_i > Len(iter_top_level_blocks(Tree))
    /\ SetAcc(Acc, "done", 0)
    /\ UNCHANGED <<idVars, dirVars, extVars>>

NextFile == CodeBlocks \/ Register \/ Child \/ ChildrenDone \/ Block \/ ReturnFile
SpecFile == InitFile /\ [][NextFile]_vars

\* the same build on modules made of definitions of every shape
InitDefs ==
    /\ items \in SeqsUpTo(DefMenu, MaxItems)
    /\ path = FilePath
    /\ \E m \in {ModuleOf(items)} : file_tree = m.tree /\ file_source = m.src
    /\ pc = "code_blocks" /\ child_i = 0
    /\ scope_stack = << <<>> >> /\ caller_stack = <<>> /\ visited_node_ids = {}
    /\ nodes = <<>> /\ edges = <<>>
    /\ IdIdle /\ DirIdle /\ ExtIdle
SpecDefs == InitDefs /\ [][NextFile]_vars

\* the same build on modules of statements in class bodies and top-level runs
InitStmts ==
    /\ items \in SeqsUpTo(StmtMenu, MaxItems)
    /\ path = FilePath
    /\ \E m \in {ModuleOf(items)} : file_tree = m.tree /\ file_source = m.src
    /\ pc = "code_blocks" /\ child_i = 0
    /\ scope_stack = << <<>> >> /\ caller_stack = <<>> /\ visited_node_ids = {}
    /\ nodes = <<>> /\ edges = <<>>
    /\ IdIdle /\ DirIdle /\ ExtIdle
SpecStmts == InitStmts /\ [][NextFile]_vars


(***************************************************************************)
(* The scope stack of a NodeProcessor under any sequence of operations     *)
(***************************************************************************)
MaxDepth == 3
ScopeNames == { <<>>, <<"a">>, <<"b">> }
ScopeIds == {NodeID_create("Function", <<"f">>, FilePath, b) : b \in 0..1}

\* a processor as constructed: the root scope alone
InitScope ==
    /\ items = <<>> /\ path = FilePath /\ pc = "idle" /\ child_i = 0
    /\ file_tree = <<>> /\ file_source = <<>>
    /\ scope_stack = NewProcessor(FilePath, <<>>).scope_stack
    /\ caller_stack = <<>> /\ visited_node_ids = {}
    /\ nodes = <<>> /\ edges = <<>>
    /\ scope_op = <<>> /\ scope_result = <<>>
    /\ IdIdle /\ DirIdle /\ RenderIdle /\ PipeIdle /\ ImportIdle

\* scope_op records the operation called and the depth of the stack at the call
ScopeStep(op, st) ==
    /\ scope_stack' = st.scope_stack
    /\ scope_op' = <<op, Len(scope_stack)>>
    /\ UNCHANGED <<items, path, file_tree, file_source, pc, child_i, caller_stack,
                   visited_node_ids, nodes, edges, idVars, dirVars, renderVars, pipeVars, importVars>>

PushScope ==
    /\ Len(scope_stack) < MaxDepth
    /\ ScopeStep("push_scope", push_scope(Acc.st))
    /\ UNCHANGED scope_result

PopScope ==
    /\ ScopeStep("pop_scope", pop_scope(Acc.st))
    /\ UNCHANGED scope_result

BindSymbol ==
    \E name \in ScopeNames, node_id \in ScopeIds :
        /\ ScopeStep("bind_symbol", bind_symbol(Acc.st, name, node_id))
        /\ UNCHANGED scope_result

ResolveSymbol ==
    \E name \in ScopeNames :
        /\ ScopeStep("resolve_symbol", Acc.st)
        /\ scope_result' = [name |-> name, node_id |-> resolve_symbol(Acc.st, name)]

NextScope == PushScope \/ PopScope \/ BindSymbol \/ ResolveSymbol
SpecScope == InitScope /\ [][NextScope]_vars


(***************************************************************************)
(* NodeID.create on two argument tuples                                    *)
(***************************************************************************)
IdKinds == {"Function", "variable", "code_block"}
IdNames == { <<"a">>, <<"a", "@", "b">>, <<"f", "(", "a", ")">> }
IdPaths == { <<"p", ".py">>, <<"b", "@", "p", ".py">>, <<"d", "/", "p", ".py">> }
IdTuples == [type_ : IdKinds, name : IdNames, path : IdPaths, start_byte : 0..MaxByte]

InitId ==
    /\ id_args \in IdTuples \X IdTuples
    /\ id_out = <<>>
    /\ FileIdle /\ DirIdle /\ ExtIdle

CreateIds ==
    /\ id_args /= <<>> /\ id_out = <<>>
    /\ id_out' = [i \in 1..2 |-> NodeID_create(id_args[i].type_, id_args[i].name,
                                               id_args[i].path, id_args[i].start_byte)]
    /\ UNCHANGED <<id_args, fileVars, dirVars, extVars>>

NextId == CreateIds
SpecId == InitId /\ [][NextId]_vars

(***************************************************************************)
(* services/cpg_parser/ts_parser/cpg_builder.py: CPGDirectoryBuilder       *)
(*                                                                         *)
(* A file under root: name, its path relative to root; target, the path    *)
(* relative to root that it resolves to (different for a symbolic link);   *)
(* text, its constructs; fault, what goes wrong with it: "read" (reading   *)
(* it raises OSError), "decode" (it is not UTF-8), "syntax" (ast.parse     *)
(* rejects it; tree-sitter still returns a tree), or "none".               *)
(***************************************************************************)
File(name, target, text, fault) ==
    [name |-> name, target |-> target, text |-> text, fault |-> fault]

Catalogue ==
    { File(<<"provider", ".py">>, <<"provider", ".py">>, <<"def_f", "K=1">>, "none"),
      File(<<"consumer", ".py">>, <<"consumer", ".py">>, <<"import", "f(K)">>, "none"),
      File(<<"p", ".py">>, <<"p", ".py">>, <<"a=a@b">>, "none"),
      File(<<"b", "@", "p", ".py">>, <<"b", "@", "p", ".py">>, <<"a=a">>, "none"),
      File(<<"q", ".py">>, <<"p", ".py">>, <<"a=a@b">>, "none"),
      File(<<"bad", ".py">>, <<"bad", ".py">>, <<"a=1">>, "read"),
      File(<<"enc", ".py">>, <<"enc", ".py">>, <<"a=1">>, "decode"),
      File(<<"syn", ".py">>, <<"syn", ".py">>, <<"def_g", "a=1", "(">>, "syntax") }

\* a symbolic link is listed only when its target exists
WellFormed(fs) ==
    \A f \in fs : f.name /= f.target => \E g \in fs : g.name = f.target /\ g.target = f.target

Perms(S) == {q \in [1..Cardinality(S) -> S] : \A i, j \in DOMAIN q : q[i] = q[j] => i = j}

\* the order of str on the tokens that occur in paths
TokenOrder == <<".py", "/", "@", "__init__", "b", "bad", "consumer", "enc", "p",
                "provider", "q", "syn">>
TokenRank(t) == CHOOSE i \in DOMAIN TokenOrder : TokenOrder[i] = t
RECURSIVE PathLess(_, _)
PathLess(a, b) ==
    IF b = <<>> THEN FALSE
    ELSE IF a = <<>> THEN TRUE
    ELSE IF Head(a) = Head(b) THEN PathLess(Tail(a), Tail(b))
    ELSE TokenRank(Head(a)) < TokenRank(Head(b))

\* sorted(files)
RECURSIVE InsertSorted(_, _)
InsertSorted(q, f) ==
    IF q = <<>> THEN <<f>>
    ELSE IF PathLess(f.name, Head(q).name) THEN <<f>> \o q
    ELSE <<Head(q)>> \o InsertSorted(Tail(q), f)
\* a variant that keeps the order of the listing
sorted_as_listed(q) == q

RECURSIVE sorted(_)
sorted(q) == IF q = <<>> THEN <<>> ELSE InsertSorted(sorted(Tail(q)), Head(q))

\* CPGDirectoryBuilder._collect_python_files; the listing is what os.walk yields
collect_python_files(fs_listing) == sorted(fs_listing)

\* str.split(".") and ".".join on module names
RECURSIVE SplitOn(_, _, _, _)
SplitOn(s, sep, cur, acc) ==
    IF s = <<>> THEN Append(acc, cur)
    ELSE IF Head(s) = sep THEN SplitOn(Tail(s), sep, <<>>, Append(acc, cur))
    ELSE SplitOn(Tail(s), sep, Append(cur, Head(s)), acc)
RECURSIVE JoinWith(_, _)
JoinWith(ps, sep) == IF ps = <<>> THEN <<>>
                     ELSE IF Len(ps) = 1 THEN ps[1]
                     ELSE ps[1] \o <<sep>> \o JoinWith(Tail(ps), sep)
NonEmpty(ps) == SelectSeq(ps, LAMBDA q : q /= <<>>)

\* CPGDirectoryBuilder._module_name_for_path
module_name_for_path(name) ==
    LET parts == SplitOn(name, "/", <<>>, <<>>)
        last  == parts[Len(parts)]
        rel   == IF last = <<"__init__", ".py">>
                 THEN SubSeq(parts, 1, Len(parts) - 1)
                 ELSE [parts EXCEPT ![Len(parts)] =
                         IF last[Len(last)] = ".py" THEN SubSeq(last, 1, Len(last) - 1) ELSE last]
    IN  JoinWith(rel, ".")

\* CPGDirectoryBuilder._resolve_import_from_module; module None is <<>>
resolve_import_absolute(current_module, level, module) == IF level < 0 THEN None ELSE module
resolve_import_from_module(current_module, level, module) ==
    LET cm_parts        == SplitOn(current_module, ".", <<>>, <<>>)
        current_package == IF Len(cm_parts) > 1
                           THEN JoinWith(SubSeq(cm_parts, 1, Len(cm_parts) - 1), ".")
                           ELSE <<>>
        parts0 == NonEmpty(SplitOn(current_package, ".", <<>>, <<>>))
        up     == level - 1
        parts1 == IF up > Len(parts0) THEN <<>>
                  ELSE IF up /= 0 THEN SubSeq(parts0, 1, Len(parts0) - up)
                  ELSE parts0
        parts2 == IF module /= <<>>
                  THEN parts1 \o NonEmpty(SplitOn(module, ".", <<>>, <<>>))
                  ELSE parts1
    IN  IF level < 0 THEN None
        ELSE IF level = 0 THEN module
        ELSE IF parts2 /= <<>> THEN JoinWith(parts2, ".") ELSE module

\* ast.parse(source).body as _parse_exported_names reads it: the top-level
\* function, class and simple assignment names with their line numbers
RECURSIVE ExportedLoop(_, _, _, _)
ExportedLoop(src, kids, i, acc) ==
    IF i > Len(kids) THEN acc
    ELSE LET stmt == kids[i]
             text(n) == SubSeq(src, n.sb + 1, n.eb)
         IN
         IF stmt.type = "function_definition" /\ HasField(stmt, "name")
         THEN ExportedLoop(src, kids, i + 1,
                  [acc EXCEPT !.functions = DictSet(@, text(Field(stmt, "name")), stmt.sl + 1)])
         ELSE IF stmt.type = "class_definition" /\ HasField(stmt, "name")
         THEN ExportedLoop(src, kids, i + 1,
                  [acc EXCEPT !.classes = DictSet(@, text(Field(stmt, "name")), stmt.sl + 1)])
         ELSE IF stmt.type = "expression_statement" /\ Len(stmt.kids) = 1
                 /\ stmt.kids[1].type = "assignment" /\ HasField(stmt.kids[1], "left")
                 /\ Field(stmt.kids[1], "left").type = "identifier"
         THEN LET target == Field(stmt.kids[1], "left")
              IN  ExportedLoop(src, kids, i + 1,
                      [acc EXCEPT !.variables = DictSet(@, text(target), target.sl + 1)])
         ELSE ExportedLoop(src, kids, i + 1, acc)

NoExportedNames == [functions |-> <<>>, classes |-> <<>>, variables |-> <<>>]

\* CPGDirectoryBuilder._parse_exported_names (the OSError of read_text is not caught)
parse_exported_names(f) ==
    LET Names(m) == ExportedLoop(m.src, m.tree.kids, 1, NoExportedNames)
    IN  IF f.fault = "read" THEN [err |-> "OSError", names |-> NoExportedNames]
        ELSE IF f.fault \in {"decode", "syntax"} THEN [err |-> "", names |-> NoExportedNames]
        ELSE [err |-> "", names |-> Names(ModuleOf(f.text))]

\* CPGFileBuilder(path=file_path, root=root, prebound_symbols=...).build()
FileBuild(f, prebound) ==
    LET Return(r) == [err |-> r.st.err, nodes |-> r.nodes, edges |-> r.edges]
    IN  IF f.fault = "read" THEN [err |-> "OSError", nodes |-> <<>>, edges |-> <<>>]
        ELSE IF f.fault = "decode"
        THEN [err |-> "UnicodeDecodeError", nodes |-> <<>>, edges |-> <<>>]
        ELSE Return(CPGFileBuilder_build(f.target, ModuleOf(f.text), prebound))

\* the first node of nodes.items() with that name and identifier prefix (and line)
FirstMatch(ns, name, prefix, lineno) ==
    LET hits == {i \in DOMAIN ns :
                   /\ "name" \in DOMAIN ns[i].v /\ ns[i].v.name = name
                   /\ StartsWith(ns[i].k, <<prefix, ":">>)
                   /\ (lineno /= 0 => ns[i].v.line_start = lineno)}
    IN  IF hits = {} THEN None
        ELSE ns[CHOOSE i \in hits : \A j \in hits : i <= j].k

RECURSIVE SymbolLoop(_, _, _, _, _)
SymbolLoop(ns, names, i, prefix, module_symbols) ==
    IF i > Len(names) THEN module_symbols
    ELSE LET hit == FirstMatch(ns, names[i].k, prefix,
                               IF prefix = "variable" THEN names[i].v ELSE 0)
         IN  SymbolLoop(ns, names, i + 1, prefix,
                        IF hit /= None THEN DictSet(module_symbols, names[i].k, hit)
                        ELSE module_symbols)

\* CPGDirectoryBuilder._build_symbol_index, lines 239-261
module_symbols_of(ns, exported) ==
    SymbolLoop(ns, exported.variables, 1, "variable",
        SymbolLoop(ns, exported.classes, 1, "class",
            SymbolLoop(ns, exported.functions, 1, "function", <<>>)))

\* ast.ImportFrom statements of the module body: module, level, (name, asname)
RECURSIVE ImportLoop(_, _, _)
ImportLoop(src, kids, i) ==
    IF i > Len(kids) THEN <<>>
    ELSE LET stmt == kids[i]
             text(n) == SubSeq(src, n.sb + 1, n.eb)
             names == SelectSeq(stmt.kids, LAMBDA c : c.type = "dotted_name")
         IN  (IF stmt.type = "import_from_statement"
              THEN << [module |-> text(names[1]), level |-> 0,
                       names |-> [j \in 1..(Len(names) - 1) |->
                                    [name |-> text(names[j + 1]), asname |-> <<>>]]] >>
              ELSE <<>>)
             \o ImportLoop(src, kids, i + 1)

RECURSIVE AliasLoop(_, _, _, _)
AliasLoop(aliases, i, module_symbols, prebound) ==
    IF i > Len(aliases) THEN prebound
    ELSE LET alias      == aliases[i]
             local_name == IF alias.asname /= <<>> THEN alias.asname ELSE alias.name
         IN  AliasLoop(aliases, i + 1, module_symbols,
                 IF alias.name /= <<"*">> /\ DictHas(module_symbols, alias.name)
                 THEN DictSet(prebound, local_name, DictGet(module_symbols, alias.name))
                 ELSE prebound)

RECURSIVE PreboundLoop(_, _, _, _, _)
PreboundLoop(imports, i, current_module, index, prebound) ==
    IF i > Len(imports) THEN prebound
    ELSE LET stmt == imports[i]
             resolved_module == resolve_import_from_module(current_module, stmt.level,
                                                           stmt.module)
         IN  PreboundLoop(imports, i + 1, current_module, index,
                 IF resolved_module = None \/ ~DictHas(index, resolved_module) THEN prebound
                 ELSE AliasLoop(stmt.names, 1, DictGet(index, resolved_module), prebound))

\* CPGDirectoryBuilder._prebound_symbols_for_file
prebound_symbols_for_file(f, index) ==
    LET Imports(m) == ImportLoop(m.src, m.tree.kids, 1)
    IN  IF f.fault = "read" THEN [err |-> "OSError", prebound |-> <<>>]
        ELSE IF f.fault \in {"decode", "syntax"} THEN [err |-> "", prebound |-> <<>>]
        ELSE [err |-> "",
              prebound |-> PreboundLoop(Imports(ModuleOf(f.text)), 1,
                                        module_name_for_path(f.name), index, <<>>)]

\* CPGDirectoryBuilder.build, lines 162-168: merging the nodes of one file
RECURSIVE MergeLoop(_, _, _)
MergeLoop(ns, i, merged) ==
    IF i > Len(ns) THEN [err |-> "", merged |-> merged]
    ELSE IF DictHas(merged, ns[i].k) /\ DictGet(merged, ns[i].k) /= ns[i].v
         THEN [err |-> "ValueError: Duplicate node id", merged |-> merged]
         ELSE MergeLoop(ns, i + 1, DictSet(merged, ns[i].k, ns[i].v))
\* a variant where a later payload replaces the recorded one
merge_nodes_overwrite(merged, ns) == [err |-> "", merged |-> DictUpdate(merged, ns)]

merge_nodes(merged, ns) == MergeLoop(ns, 1, merged)


(***************************************************************************)
(* CPGDirectoryBuilder.build, step by step; then a second build of the     *)
(* same directory, enumerated by the file system in any order              *)
(***************************************************************************)
InitDir ==
    /\ files \in {fs \in SUBSET Catalogue :
                    Cardinality(fs) \in 1..MaxFiles /\ WellFormed(fs)}
    /\ on_error \in {"raise", "skip"}
    /\ link_imports \in BOOLEAN
    /\ listing \in Perms(files)
    /\ python_files = <<>>
    /\ phase = "collect" /\ file_i = 0
    /\ symbol_index = <<>> /\ merged_nodes = <<>> /\ merged_edges = <<>>
    /\ raised = "" /\ run = 1 /\ first_result = <<>>
    /\ IdIdle /\ FileIdle /\ ExtIdle

\* build, lines 128-140
Collect ==
    /\ phase = "collect"
    /\ python_files' = collect_python_files(listing)
    /\ phase' = IF link_imports THEN "index" ELSE "main"
    /\ file_i' = 1
    /\ UNCHANGED <<files, on_error, link_imports, listing, symbol_index, merged_nodes,
                   merged_edges, raised, run, first_result, idVars, fileVars, extVars>>

\* _build_symbol_index, one iteration of the loop over python_files
IndexFile ==
    /\ phase = "index" /\ file_i <= Len(python_files)
    /\ \E f \in {python_files[file_i]} :
       \E exported \in {parse_exported_names(f)} :
       \E b \in {FileBuild(f, <<>>)} :
       \E module_symbols \in {module_symbols_of(b.nodes, exported.names)} :
           /\ raised' = IF exported.err /= "" THEN exported.err
                        ELSE IF b.err /= "" /\ on_error = "raise" THEN b.err
                        ELSE ""
           /\ phase' = IF raised' /= "" THEN "raised" ELSE "index"
           /\ file_i' = file_i + 1
           /\ symbol_index' = IF exported.err = "" /\ b.err = "" /\ module_symbols /= <<>>
                              THEN DictSet(symbol_index, module_name_for_path(f.name),
                                           module_symbols)
                              ELSE symbol_index
    /\ UNCHANGED <<files, on_error, link_imports, listing, python_files, merged_nodes,
                   merged_edges, run, first_result, idVars, fileVars, extVars>>

\* _build_symbol_index returns
IndexDone ==
    /\ phase = "index" /\ file_i > Len(python_files)
    /\ phase' = "main" /\ file_i' = 1
    /\ UNCHANGED <<files, on_error, link_imports, listing, python_files, symbol_index,
                   merged_nodes, merged_edges, raised, run, first_result, idVars, fileVars, extVars>>

\* build, lines 142-170: one iteration of the loop over python_files
MainFile ==
    /\ phase = "main" /\ file_i <= Len(python_files)
    /\ \E f \in {python_files[file_i]} :
       \E pre \in {IF link_imports THEN prebound_symbols_for_file(f, symbol_index)
                   ELSE [err |-> "", prebound |-> <<>>]} :
       \E b \in {FileBuild(f, pre.prebound)} :
       \E failure \in {IF pre.err /= "" THEN pre.err ELSE b.err} :
       \E m \in {merge_nodes(merged_nodes, b.nodes)} :
           IF failure /= ""
           THEN /\ raised' = IF on_error = "raise" THEN failure ELSE ""
                /\ phase' = IF on_error = "raise" THEN "raised" ELSE "main"
                /\ UNCHANGED <<merged_nodes, merged_edges>>
           ELSE /\ raised' = m.err
                /\ phase' = IF m.err /= "" THEN "raised" ELSE "main"
                /\ merged_nodes' = m.merged
                /\ merged_edges' = IF m.err /= "" THEN merged_edges
                                   ELSE merged_edges \o b.edges
    /\ file_i' = file_i + 1
    /\ UNCHANGED <<files, on_error, link_imports, listing, python_files, symbol_index,
                   run, first_result, idVars, fileVars, extVars>>

\* build, line 172
ReturnDir ==
    /\ phase = "main" /\ file_i > Len(python_files)
    /\ phase' = "returned"
    /\ UNCHANGED <<files, on_error, link_imports, listing, python_files, file_i,
                   symbol_index, merged_nodes, merged_edges, raised, run, first_result,
                   idVars, fileVars, extVars>>

\* what the caller of build gets: the graph, or the exception and no graph
Outcome == IF phase = "raised" THEN [raised |-> raised, nodes |-> <<>>, edges |-> <<>>]
           ELSE [raised |-> "", nodes |-> merged_nodes, edges |-> merged_edges]

\* build is called again on the unchanged directory
Rebuild ==
    /\ phase \in {"returned", "raised"} /\ run = 1
    /\ first_result' = Outcome
    /\ listing' \in Perms(files)
    /\ run' = 2
    /\ python_files' = <<>> /\ phase' = "collect" /\ file_i' = 0
    /\ symbol_index' = <<>> /\ merged_nodes' = <<>> /\ merged_edges' = <<>> /\ raised' = ""
    /\ UNCHANGED <<files, on_error, link_imports, idVars, fileVars, extVars>>

NextDir == Collect \/ IndexFile \/ IndexDone \/ MainFile \/ ReturnDir \/ Rebuild
SpecDir == InitDir /\ [][NextDir]_vars

\* the directory build over files p.py and q.py made of definitions, some
\* nested in others, and a module-level variable
MaxDefinitions == 2
IndexFiles(n) ==
    { File(<<n, ".py">>, <<n, ".py">>, text, "none") :
        text \in SeqsUpTo(IndexMenu, MaxDefinitions) \ {<<>>} }
InitIndex ==
    /\ files \in {{f} : f \in IndexFiles("p")}
                 \cup (IF MaxFiles >= 2
                       THEN {{f, g} : f \in IndexFiles("p"), g \in IndexFiles("q")}
                       ELSE {})
    /\ on_error \in {"raise", "skip"}
    /\ link_imports \in BOOLEAN
    /\ listing \in Perms(files)
    /\ python_files = <<>>
    /\ phase = "collect" /\ file_i = 0
    /\ symbol_index = <<>> /\ merged_nodes = <<>> /\ merged_edges = <<>>
    /\ raised = "" /\ run = 1 /\ first_result = <<>>
    /\ IdIdle /\ FileIdle /\ ExtIdle
SpecIndex == InitIndex /\ [][NextDir]_vars

(***************************************************************************)
(* services/context_assembler.py: ContextAssemblerService._render_context  *)
(*                                                                         *)
(* A finding is what _render_context reads of it: the name of its class,   *)
(* its description, file and line_number.  A context node is a             *)
(* CodeContextNode.  A token estimator is a function from text to int; the *)
(* service holds one of the named estimators below, or None.               *)
(***************************************************************************)
MaxBudget == 4      \* largest token_budget
MaxNodes == 2       \* largest number of context nodes of a finding

\* str.count(sub) for a one-token sub
Count(text, t) == Cardinality({i \in DOMAIN text : text[i] = t})

\* ContextAssemblerService._estimate_tokens
estimate_tokens(estimator, text) ==
    IF estimator = "count_nodes" THEN Count(text, "Node:") + 1
    ELSE IF estimator = "length" THEN Len(text)
    ELSE IF estimator = "zero" THEN 0
    ELSE IF text /= <<>> THEN (IF Len(text) \div 4 > 1 THEN Len(text) \div 4 ELSE 1)
    ELSE 0

Estimators == {None, <<"count_nodes">>, <<"length">>, <<"zero">>}
EstimatorName(e) == IF e = None THEN "" ELSE e[1]

\* ContextAssemblerService._finding_description
finding_description(f) ==
    IF f.cls = "BanditFindingNode" THEN <<"cwe=", f.cwe_id, " ", "severity=", f.severity>>
    ELSE IF f.cls = "DlintFindingNode" THEN <<"issue_id=", f.issue_id>>
    ELSE <<>>

Findings ==
    { [cls |-> "BanditFindingNode", file |-> "m.py", line_number |-> "6", cwe_id |-> "79",
       severity |-> "HIGH", issue_id |-> ""],
      [cls |-> "DlintFindingNode", file |-> "m.py", line_number |-> "1", cwe_id |-> "",
       severity |-> "", issue_id |-> "DUO105"] }

ContextNodeMenu ==
    { [node_kind |-> <<"FunctionNode">>, name |-> <<"foo">>, file_path |-> "m.py",
       line_start |-> "5", line_end |-> "7",
       snippet |-> <<"def", " ", "foo", "(", ")", ":", "\n", " ", "bar", "(", ")">>],
      [node_kind |-> None, name |-> None, file_path |-> "m.py",
       line_start |-> "1", line_end |-> "2", snippet |-> <<" ", "\n">>],
      [node_kind |-> <<"VariableNode">>, name |-> <<"a">>, file_path |-> "m.py",
       line_start |-> "3", line_end |-> "3", snippet |-> <<>>] }

\* _render_context, lines 173-176: the two heading parts
heading_parts(f) ==
    << <<"Finding:", " ", f.cls, " ">> \o finding_description(f),
       <<"Location:", " ", f.file, ":", f.line_number>> >>

\* _render_context, lines 180-185: the text of one node
node_text(node) ==
    LET header == strip(<<"Node:", " ">>
                        \o (IF node.node_kind /= None THEN node.node_kind ELSE <<"Code">>)
                        \o <<" ">> \o (IF node.name /= None THEN node.name ELSE <<>>)
                        \o <<" ", node.file_path, ":", node.line_start, "-", node.line_end>>)
        Text_(snippet_block) ==
            IF snippet_block /= <<>> THEN header \o <<"\n">> \o snippet_block ELSE header
    IN  Text_(strip(node.snippet))

\* "\n\n".join(parts)
RECURSIVE JoinBlank(_)
JoinBlank(ps) == IF ps = <<>> THEN <<>>
                 ELSE IF Len(ps) = 1 THEN ps[1]
                 ELSE ps[1] \o <<"\n", "\n">> \o JoinBlank(Tail(ps))

InitRender ==
    /\ token_budget \in 0..MaxBudget
    /\ token_estimator \in Estimators
    /\ finding \in Findings
    /\ context_nodes \in SeqsUpTo(ContextNodeMenu, MaxNodes)
    /\ render_parts = <<>> /\ total_tokens = 0 /\ node_i = 0 /\ render_pc = "start"
    /\ ScopeIdle /\ PipeIdle /\ ImportIdle
    /\ IdIdle /\ FileIdle /\ DirIdle

\* _render_context, lines 173-177
RenderStart ==
    /\ render_pc = "start"
    /\ render_parts' = heading_parts(finding)
    /\ total_tokens' = estimate_tokens(EstimatorName(token_estimator),
                                       JoinWith(heading_parts(finding), "\n"))
    /\ node_i' = 1
    /\ render_pc' = "loop"
    /\ UNCHANGED <<token_budget, token_estimator, finding, context_nodes,
                   scopeVars, pipeVars, importVars, idVars, fileVars, dirVars>>

\* _render_context, lines 179-191: one iteration of the loop over nodes
RenderNode ==
    /\ render_pc = "loop" /\ node_i <= Len(context_nodes)
    /\ \E text \in {node_text(context_nodes[node_i])} :
       \E candidate_tokens \in {estimate_tokens(EstimatorName(token_estimator),
                                                JoinBlank(Append(render_parts, text)))} :
           IF candidate_tokens > token_budget
           THEN /\ render_pc' = "returned"
                /\ UNCHANGED <<render_parts, total_tokens, node_i>>
           ELSE /\ render_parts' = Append(render_parts, text)
                /\ total_tokens' = candidate_tokens
                /\ node_i' = node_i + 1
                /\ render_pc' = "loop"
    /\ UNCHANGED <<token_budget, token_estimator, finding, context_nodes,
                   scopeVars, pipeVars, importVars, idVars, fileVars, dirVars>>

\* _render_context, line 193, after the last node
RenderDone ==
    /\ render_pc = "loop" /\ node_i > Len(context_nodes)
    /\ render_pc' = "returned"
    /\ UNCHANGED <<token_budget, token_estimator, finding, context_nodes, render_parts,
                   total_tokens, node_i, scopeVars, pipeVars, importVars, idVars, fileVars, dirVars>>

\* what _render_context returns: (context_text, token_count)
context_text == JoinBlank(render_parts)
token_count  == total_tokens

NextRender == RenderStart \/ RenderNode \/ RenderDone
SpecRender == InitRender /\ [][NextRender]_vars

(***************************************************************************)
(* pipeline.py: GeneralPipeline.run                                        *)
(*                                                                         *)
(* run builds the graph of the directory src with a CPGDirectoryBuilder of *)
(* default settings, modelled by the steps of build above.  The graph      *)
(* database and the analyzers are outside the program: a call to them      *)
(* either completes or raises.  pipe_log lists the calls that completed.   *)
(***************************************************************************)
InitPipe ==
    /\ files \in {fs \in SUBSET Catalogue :
                    Cardinality(fs) \in 1..MaxFiles /\ WellFormed(fs)}
    /\ on_error = "raise"
    /\ link_imports = TRUE
    /\ listing \in Perms(files)
    /\ python_files = <<>>
    /\ phase = "collect" /\ file_i = 0
    /\ symbol_index = <<>> /\ merged_nodes = <<>> /\ merged_edges = <<>>
    /\ raised = "" /\ run = 1 /\ first_result = <<>>
    /\ pipe_pc = "client" /\ pipe_log = <<>>
    /\ ScopeIdle /\ RenderIdle /\ ImportIdle /\ IdIdle /\ FileIdle

PipeStep(nextpc, call) ==
    /\ pipe_pc' = nextpc
    /\ pipe_log' = IF call = "" THEN pipe_log ELSE Append(pipe_log, call)
    /\ UNCHANGED <<scopeVars, renderVars, importVars, idVars, fileVars, dirVars>>

\* with build_client("", "", "") as neo4j_client; GraphRepository(neo4j_client)
PipeEnter ==
    /\ pipe_pc = "client"
    /\ PipeStep("build", "build_client")

\* a step of CPGDirectoryBuilder(root=self.src.resolve()).build()
PipeBuild ==
    /\ pipe_pc = "build"
    /\ Collect \/ IndexFile \/ IndexDone \/ MainFile \/ ReturnDir

\* build returned (nodes, edges)
PipeBuilt ==
    /\ pipe_pc = "build" /\ phase = "returned"
    /\ PipeStep("load", "build")

\* build raised: the exception leaves run
PipeBuildRaised ==
    /\ pipe_pc = "build" /\ phase = "raised"
    /\ PipeStep("raised", "")

\* graph_repository.load(nodes, edges)
PipeLoad ==
    /\ pipe_pc = "load"
    /\ \/ PipeStep("dlint", "load")
       \/ PipeStep("raised", "")

\* DlintAnalyzerService(...).enrich_graph_with_findings()
PipeDlint ==
    /\ pipe_pc = "dlint"
    /\ \/ PipeStep("bandit", "dlint.enrich_graph_with_findings")
       \/ PipeStep("raised", "")

\* BanditAnalyzerService(...); bandit_analyzer_service.enrich_graph_with_findings
\* The last statement names the bound method and does not call it.
PipeBandit ==
    /\ pipe_pc = "bandit"
    /\ PipeStep("exit", "")

\* the with block is left: client.close(), then run returns
PipeReturn ==
    /\ pipe_pc = "exit"
    /\ PipeStep("returned", "close")

NextPipe == PipeEnter \/ PipeBuild \/ PipeBuilt \/ PipeBuildRaised \/ PipeLoad \/ PipeDlint
            \/ PipeBandit \/ PipeReturn
SpecPipe == InitPipe /\ [][NextPipe]_vars

(***************************************************************************)
(* _resolve_import_from_module for one `from ... import` of one file       *)
(***************************************************************************)
MaxPackages == 2
MaxLevel == 3
PackageNames == {"p", "q"}
\* the path, relative to the root, of file `stem`.py in the package p1/.../pk
FileIn(packages, stem) ==
    JoinWith([i \in 1..Len(packages) |-> <<packages[i]>>] \o << <<stem, ".py">> >>, "/")
Dotted(names) == JoinWith([i \in 1..Len(names) |-> <<names[i]>>], ".")
ImportedModules == { <<>>, <<"m">>, <<"x", "y">> }

InitImport ==
    /\ import_args \in [packages : SeqsUpTo(PackageNames, MaxPackages),
                        stem : {"m", "__init__"},
                        level : 0..MaxLevel,
                        module : ImportedModules]
    /\ import_out = <<>>
    /\ IdIdle /\ FileIdle /\ DirIdle /\ ScopeIdle /\ RenderIdle /\ PipeIdle

\* _prebound_symbols_for_file, lines 285-296: current_module is the module
\* name of the importing file, module is None when the statement names none
ResolveImport ==
    /\ import_args /= <<>> /\ import_out = <<>>
    /\ import_out' =
          [value |-> resolve_import_from_module(
                         module_name_for_path(FileIn(import_args.packages, import_args.stem)),
                         import_args.level,
                         IF import_args.module = <<>> THEN None
                         ELSE Dotted(import_args.module))]
    /\ UNCHANGED <<import_args, idVars, fileVars, dirVars, scopeVars, renderVars, pipeVars>>

NextImport == ResolveImport
SpecImport == InitImport /\ [][NextImport]_vars


(***************************************************************************)
(* The builders and NodeID.create together                                 *)
(***************************************************************************)
\* the two builders
InitBuild == InitFile \/ InitDir
NextBuild == NextFile \/ NextDir
SpecBuild == InitBuild /\ [][NextBuild]_vars

Init == InitId \/ InitFile \/ InitDir
Next == NextId \/ NextFile \/ NextDir
Spec == Init /\ [][Next]_vars


(***************************************************************************)
(* Reading the program text, to state what the graph must hold             *)
(***************************************************************************)
RECURSIVE AllNodes(_)
AllNodes(n) == <<n>> \o ConcatAll([i \in DOMAIN n.kids |-> AllNodes(n.kids[i])])

Text(n) == normalize_name(SubSeq(Source, n.sb + 1, n.eb))
OfType(ns, type) == SelectSeq(ns, LAMBDA c : c.type = type)

TopFunctions == OfType(Tree.kids, "function_definition")
FunctionName(F) == Text(Field(F, "name"))
FunctionId(F) == NodeID_create("Function", FunctionName(F), path, F.sb)
CallId(c) == NodeID_create("call", Text(c), path, c.sb)
\* the functions of the file that the callee name of call c denotes
CalleeIds(c) == {FunctionId(TopFunctions[j]) :
                   j \in {j \in DOMAIN TopFunctions :
                            FunctionName(TopFunctions[j]) = Text(Field(c, "function"))}}

IsCallNodeFor(c, caller_id, callee_id) ==
    /\ DictHas(nodes, CallId(c))
    /\ DictGet(nodes, CallId(c)).cls = "CallNode"
    /\ DictGet(nodes, CallId(c)).caller_id = caller_id
    /\ DictGet(nodes, CallId(c)).callee_id = callee_id
    /\ \E i \in DOMAIN edges : edges[i] = CallGraphCalls(caller_id, CallId(c))
    /\ \E i \in DOMAIN edges : edges[i] = CallGraphCalledBy(CallId(c), callee_id)

\* the top-level assignment statements, in order
TopAssignments ==
    LET stmts == SelectSeq(Tree.kids, LAMBDA c : c.type = "expression_statement"
                                                  /\ c.kids[1].type \in {"assignment",
                                                                         "augmented_assignment"})
    IN  [k \in DOMAIN stmts |-> stmts[k].kids[1]]
TargetName(asg) == Text(Field(asg, "left"))
AssignedBefore(name, k) == {j \in 1..(k - 1) : TargetName(TopAssignments[j]) = name}
FirstAssignment(name) ==
    TopAssignments[CHOOSE j \in DOMAIN TopAssignments :
                     /\ TargetName(TopAssignments[j]) = name
                     /\ AssignedBefore(name, j) = {}]
VariableId(name) == NodeID_create("variable", name, path, Field(FirstAssignment(name), "left").sb)
VariableIdsOf(name) ==
    {nodes[i].k : i \in {i \in DOMAIN nodes : /\ nodes[i].v.cls = "VariableNode"
                                              /\ StartsWith(nodes[i].k, <<"variable", ":">>)
                                              /\ nodes[i].v.name = name}}

DeclaredParameters(F) == SelectSeq(Field(F, "parameters").kids, LAMBDA p : p.named)
ParameterName(p) == IF p.type = "identifier" THEN p ELSE OfType(p.kids, "identifier")[1]
ParameterId(p) == NodeID_create("variable", Text(ParameterName(p)), path, ParameterName(p).sb)
ParameterEdges(F) ==
    SelectSeq(edges, LAMBDA e : /\ e.rel = "DataFlowDefinedBy"
                                /\ e.operation = "parameter"
                                /\ e.src = FunctionId(F))

(***************************************************************************)
(* Claims                                                                  *)
(***************************************************************************)

\* C10: NodeID.create is injective: two distinct (kind, name, file_path,
\* start_byte) tuples never yield the same identifier.
C10_CreateInjective ==
    id_out /= <<>> => (id_args[1] /= id_args[2] => id_out[1] /= id_out[2])

C10_Witness ==
    /\ id_out /= <<>> /\ id_args[1] /= id_args[2] /\ id_out[1] = id_out[2]
    /\ id_args[1].path /= id_args[2].path

\* C2: at the end of a single-file build, every call inside a function f whose
\* callee name denotes a function g of the file, nested in another call's
\* arguments or not, has a CallNode with caller_id = f and callee_id = g, a
\* CallGraphCalls edge f -> call-site and a CallGraphCalledBy edge call-site -> g.
C2_ResolvedCallsInFunctions ==
    pc = "done" =>
        \A i \in DOMAIN TopFunctions :
            LET F  == TopFunctions[i]
                cs == OfType(AllNodes(Field(F, "body")), "call")
            IN  \A k \in DOMAIN cs :
                    CalleeIds(cs[k]) /= {} =>
                        \E callee \in CalleeIds(cs[k]) :
                            IsCallNodeFor(cs[k], FunctionId(F), callee)

C2_Witness ==
    /\ pc = "done" /\ items = <<"def_g", "def_fh">>
    /\ DictHas(nodes, FunctionId(TopFunctions[1])) /\ DictHas(nodes, FunctionId(TopFunctions[2]))
    /\ \A i \in DOMAIN nodes : nodes[i].v.cls /= "CallNode"

\* C4: a function with N declared parameters gets exactly N DataFlowDefinedBy
\* edges with operation = parameter, each from the function to the VariableNode
\* of one declared parameter, and an annotated parameter's VariableNode carries
\* the annotation text as type_hint.
C4_ParameterEdges ==
    pc = "done" =>
        \A i \in DOMAIN TopFunctions :
            LET F  == TopFunctions[i]
                ps == DeclaredParameters(F)
                es == ParameterEdges(F)
            IN  /\ Len(es) = Len(ps)
                /\ \A k \in DOMAIN ps :
                      /\ \E j \in DOMAIN es : es[j].dst = ParameterId(ps[k])
                      /\ DictHas(nodes, ParameterId(ps[k]))
                      /\ DictGet(nodes, ParameterId(ps[k])).cls = "VariableNode"
                      /\ HasField(ps[k], "type") =>
                            DictGet(nodes, ParameterId(ps[k])).type_hint
                                = Text(Field(ps[k], "type"))

C4_Witness ==
    /\ pc = "done" /\ items = <<"def_f2">>
    /\ Len(DeclaredParameters(TopFunctions[1])) = 2
    /\ Len(ParameterEdges(TopFunctions[1])) = 3

InDirectory(name) == \E f \in files : f.name = name
FileNamed(name) == CHOOSE f \in files : f.name = name
FileFailures == {"OSError", "UnicodeDecodeError", "SyntaxError"}
\* what the file now at hand hands to the merge, if its build succeeds
Arrival ==
    LET f   == python_files[file_i]
        pre == IF link_imports THEN prebound_symbols_for_file(f, symbol_index)
               ELSE [err |-> "", prebound |-> <<>>]
        b   == FileBuild(f, pre.prebound)
    IN  [ok |-> pre.err = "" /\ b.err = "", nodes |-> b.nodes]
Colliding(ns) == {i \in DOMAIN ns : /\ DictHas(merged_nodes, ns[i].k)
                                    /\ DictGet(merged_nodes, ns[i].k) /= ns[i].v}
Resolves(ns, es) == \A i \in DOMAIN es : es[i].src \in Keys(ns) /\ es[i].dst \in Keys(ns)

\* C1: a build with link_imports = True of provider.py (def f, K = 1) and
\* consumer.py (from provider import f, K; f(K)) returns a graph with a
\* CallGraphCalledBy edge from the consumer's call-site to provider's f and a
\* DataFlowFlowsTo edge from provider's K to that call-site.
C1_ImportedNamesLinked ==
    (/\ phase = "returned" /\ link_imports
     /\ InDirectory(<<"provider", ".py">>) /\ InDirectory(<<"consumer", ".py">>)) =>
        \E i, j \in DOMAIN merged_edges :
            /\ merged_edges[i].rel = "CallGraphCalledBy"
            /\ merged_edges[i].src = NodeID_create("call", <<"f", "(", "K", ")">>,
                                                   <<"consumer", ".py">>, 11)
            /\ DictHas(merged_nodes, merged_edges[i].dst)
            /\ DictGet(merged_nodes, merged_edges[i].dst).cls = "FunctionNode"
            /\ DictGet(merged_nodes, merged_edges[i].dst).name = <<"f">>
            /\ DictGet(merged_nodes, merged_edges[i].dst).file_path = <<"provider", ".py">>
            /\ merged_edges[j].rel = "DataFlowFlowsTo"
            /\ merged_edges[j].dst = merged_edges[i].src
            /\ DictHas(merged_nodes, merged_edges[j].src)
            /\ DictGet(merged_nodes, merged_edges[j].src).cls = "VariableNode"
            /\ DictGet(merged_nodes, merged_edges[j].src).name = <<"K">>
            /\ DictGet(merged_nodes, merged_edges[j].src).file_path = <<"provider", ".py">>

C1_Witness ==
    /\ phase = "returned" /\ link_imports
    /\ InDirectory(<<"provider", ".py">>) /\ InDirectory(<<"consumer", ".py">>)
    /\ DictHas(symbol_index, <<"provider">>)
    /\ DictHas(DictGet(symbol_index, <<"provider">>), <<"f">>)
    /\ DictHas(DictGet(symbol_index, <<"provider">>), <<"K">>)
    /\ merged_edges = <<>>

\* C6: in the graph a single-file build returns and in the graph a directory
\* build returns, the src and the dst of every edge are keys of the nodes map.
C6_EdgesResolve ==
    /\ pc = "done" => Resolves(nodes, edges)
    /\ phase = "returned" => Resolves(merged_nodes, merged_edges)

C6_Witness ==
    \/ pc = "done" /\ Len(edges) >= 5
    \/ phase = "returned" /\ Cardinality(files) = 2 /\ merged_edges /= <<>>

\* C7: when the nodes of a file arrive at the merge, a NodeID already recorded
\* with a different payload makes the build raise and return no graph, whatever
\* on_error is; without such a NodeID the merge continues and records every
\* arriving node; and no step of a build changes or drops a recorded payload.
C7_MergeCollision ==
    [][ (phase = "main" /\ file_i <= Len(python_files)) =>
            /\ Arrival.ok /\ Colliding(Arrival.nodes) /= {} =>
                  /\ phase' = "raised"
                  /\ Outcome'.nodes = <<>> /\ Outcome'.edges = <<>>
            /\ Arrival.ok /\ Colliding(Arrival.nodes) = {} =>
                  /\ phase' = "main"
                  /\ \A i \in DOMAIN Arrival.nodes :
                        /\ DictHas(merged_nodes', Arrival.nodes[i].k)
                        /\ DictGet(merged_nodes', Arrival.nodes[i].k) = Arrival.nodes[i].v
            /\ \A j \in DOMAIN merged_nodes :
                  /\ DictHas(merged_nodes', merged_nodes[j].k)
                  /\ DictGet(merged_nodes', merged_nodes[j].k) = merged_nodes[j].v ]_vars

C7_Witness ==
    /\ phase = "raised" /\ on_error = "skip"
    /\ raised = "ValueError: Duplicate node id"
    /\ merged_nodes /= <<>>

\* C8: with on_error = "skip" no read, decode or parse failure of a file aborts
\* the build, in the symbol-index phase or in the main phase: the failing file
\* contributes nothing and every other file is built and merged; with
\* on_error = "raise" a build of a directory holding such a file does not return.
C8_SkipNeverAborts ==
    /\ (on_error = "skip" /\ phase = "raised") => raised \notin FileFailures
    /\ (on_error = "skip" /\ phase = "returned") =>
          \A f \in files :
              IF f.fault \in {"read", "decode"}
              THEN \A i \in DOMAIN merged_nodes : merged_nodes[i].v.file_path /= f.target
              ELSE \A i \in DOMAIN FileBuild(f, <<>>).nodes :
                      DictHas(merged_nodes, FileBuild(f, <<>>).nodes[i].k)
    /\ (on_error = "raise" /\ phase = "returned") =>
          \A f \in files : f.fault \notin {"read", "decode"}

C8_Witness ==
    /\ phase = "raised" /\ on_error = "skip" /\ raised = "OSError"
    /\ \E f \in files : f.fault = "read"

\* C9: a second build of the same directory, listed by the file system in any
\* order, ends as the first one did: the same exception or the same NodeID set
\* and the same edges.
C9_Deterministic ==
    (run = 2 /\ phase \in {"returned", "raised"}) =>
        /\ Outcome.raised = first_result.raised
        /\ Keys(Outcome.nodes) = Keys(first_result.nodes)
        /\ Elems(Outcome.edges) = Elems(first_result.edges)

C9_Witness ==
    /\ run = 2 /\ phase = "returned"
    /\ Cardinality(files) = 2 /\ listing /= python_files
    /\ merged_edges /= <<>>

(***************************************************************************)
(* Definitions of every shape                                              *)
(***************************************************************************)
\* the definitions of the file, at any depth, that have no name field
Nameless(type) ==
    SelectSeq(AllNodes(Tree), LAMBDA n : n.type = type /\ ~HasField(n, "name"))

\* C11: a class definition or a function definition whose name field is
\* absent is fatal: the build ends with the exception and returns no graph,
\* so a build that returns a graph has met no such definition.
C11_MissingNameIsFatal ==
    pc = "done" => /\ Nameless("class_definition") = <<>>
                   /\ Nameless("function_definition") = <<>>

C11_Witness ==
    /\ pc = "done" /\ Nameless("function_definition") /= <<>>
    /\ Nameless("class_definition") = <<>>

\* the named definitions of the file at any depth, in the order of the text
Named(type) ==
    SelectSeq(AllNodes(Tree), LAMBDA n : n.type = type /\ HasField(n, "name"))
DefinitionName(D) == Text(Field(D, "name"))
NamedAs(type, name) == SelectSeq(Named(type), LAMBDA D : DefinitionName(D) = name)
ClassId(C) == NodeID_create("Class", DefinitionName(C), path, C.sb)
\* the definitions directly under the module, plain or decorated
TopLevel(type) ==
    SelectSeq(Named(type),
              LAMBDA D : \E i \in DOMAIN Tree.kids :
                            \/ Tree.kids[i] = D
                            \/ /\ Tree.kids[i].type = "decorated_definition"
                               /\ Field(Tree.kids[i], "definition") = D)
\* the calls in the body of function F
CallsIn(F) == IF HasField(F, "body") THEN OfType(AllNodes(Field(F, "body")), "call") ELSE <<>>
\* the graph holds a call-site for call c of caller_id to callee_id, with its edges
HasCallSite(c, caller_id, callee_id) ==
    \E i \in DOMAIN nodes :
        /\ nodes[i].v.cls = "CallNode"
        /\ nodes[i].v.line_start = c.sl + 1
        /\ StartsWith(nodes[i].k, <<"call", ":">>)
        /\ nodes[i].k[Len(nodes[i].k)] = ToString(c.sb)
        /\ nodes[i].v.caller_id = caller_id
        /\ nodes[i].v.callee_id = callee_id
        /\ \E j \in DOMAIN edges : edges[j] = CallGraphCalls(caller_id, nodes[i].k)
        /\ \E j \in DOMAIN edges : edges[j] = CallGraphCalledBy(nodes[i].k, callee_id)

\* the calls obj.m() in top-level function F where m names no top-level
\* function or class but names a method
MethodCalls(F) ==
    SelectSeq(CallsIn(F),
              LAMBDA c : /\ Field(c, "function").type = "attribute"
                         /\ NamedAs("function_definition",
                                    Text(Field(Field(c, "function"), "attribute"))) /= <<>>
                         /\ \A D \in Elems(TopLevel("function_definition"))
                                     \cup Elems(TopLevel("class_definition")) :
                                DefinitionName(D) /= Text(Field(Field(c, "function"),
                                                                "attribute")))

\* C12: a call obj.m() inside a function, where m is not bound lexically,
\* resolves to the first function of the file registered under the bare name
\* m: the graph holds a CallNode with that callee and the enclosing function
\* as caller, and both call-graph edges.
C12_AttributeCallsResolve ==
    pc = "done" =>
        \A F \in Elems(TopLevel("function_definition")) :
            \A c \in Elems(MethodCalls(F)) :
                HasCallSite(c, FunctionId(F),
                            FunctionId(NamedAs("function_definition",
                                               Text(Field(Field(c, "function"),
                                                          "attribute")))[1]))

C12_Witness ==
    /\ pc = "done"
    /\ \E F \in Elems(TopLevel("function_definition")) : MethodCalls(F) /= <<>>
    /\ \A i \in DOMAIN nodes : nodes[i].v.cls /= "CallNode"

\* the calls n() in top-level function F where n names a top-level class and
\* no function
ConstructorCalls(F) ==
    SelectSeq(CallsIn(F),
              LAMBDA c : /\ Field(c, "function").type = "identifier"
                         /\ Len(NamedAs("class_definition", Text(Field(c, "function")))) = 1
                         /\ NamedAs("class_definition", Text(Field(c, "function")))[1]
                                \in Elems(TopLevel("class_definition"))
                         /\ NamedAs("function_definition", Text(Field(c, "function"))) = <<>>)

\* C13: a call whose callee identifier resolves to a class (a constructor
\* call) produces a CallNode for the call-site and a CallGraphCalledBy edge
\* from the call-site to the NodeID of the class.
C13_ConstructorCalls ==
    pc = "done" =>
        \A F \in Elems(TopLevel("function_definition")) :
            \A c \in Elems(ConstructorCalls(F)) :
                HasCallSite(c, FunctionId(F),
                            ClassId(NamedAs("class_definition", Text(Field(c, "function")))[1]))

C13_Witness ==
    /\ pc = "done"
    /\ \E F \in Elems(TopLevel("function_definition")) : ConstructorCalls(F) /= <<>>
    /\ DictHas(nodes, ClassId(NamedAs("class_definition", <<"A">>)[1]))
    /\ \A i \in DOMAIN edges : edges[i].rel /= "CallGraphCalledBy"

(***************************************************************************)
(* Top-level runs                                                          *)
(***************************************************************************)
\* the children of the module that separate runs, and those that are statements
Separates(n) == n.type \in {"function_definition", "class_definition", "decorated_definition",
                            "import_statement", "import_from_statement"}
PlainStatement(n) == n.named /\ ~Separates(n)
Unseparated(i, j) == \A k \in i..j : ~Separates(Tree.kids[k])
\* the positions at which a maximal run starts, and where the run starting there ends
RunStarts ==
    {i \in DOMAIN Tree.kids :
        /\ PlainStatement(Tree.kids[i])
        /\ \A j \in 1..(i - 1) : Unseparated(j, i) => ~PlainStatement(Tree.kids[j])}
RunEnd(i) ==
    CHOOSE j \in i..Len(Tree.kids) :
        /\ PlainStatement(Tree.kids[j]) /\ Unseparated(i, j)
        /\ \A k \in (j + 1)..Len(Tree.kids) : Unseparated(i, k) => ~PlainStatement(Tree.kids[k])
CodeBlockNodes == SelectSeq(nodes, LAMBDA e : e.v.cls = "CodeBlockNode")

\* C14: once the code blocks of a module are created there is exactly one
\* CodeBlockNode per maximal contiguous run of top-level plain statements
\* (runs are separated by function, class, decorated and import definitions);
\* its line_start is the start line of the first statement of the run, its
\* line_end the end line of the last, and line_end >= line_start.
C14_OneBlockPerRun ==
    pc \in {"register", "children", "blocks", "done"} =>
        /\ Len(CodeBlockNodes) = Cardinality(RunStarts)
        /\ \A i \in RunStarts :
              \E b \in DOMAIN CodeBlockNodes :
                  /\ CodeBlockNodes[b].v.line_start = Tree.kids[i].sl + 1
                  /\ CodeBlockNodes[b].v.line_end = Tree.kids[RunEnd(i)].el + 1
        /\ \A b \in DOMAIN CodeBlockNodes :
              CodeBlockNodes[b].v.line_end >= CodeBlockNodes[b].v.line_start

C14_Witness ==
    /\ pc = "register"
    /\ \E i \in RunStarts : RunEnd(i) > i
    /\ Len(CodeBlockNodes) > Cardinality(RunStarts)

(***************************************************************************)
(* Rendered context                                                        *)
(***************************************************************************)
\* C15: the context rendered for a finding respects the token budget: for
\* every list of context nodes and every token estimator the returned
\* token_count is at most token_budget.
C15_WithinBudget ==
    render_pc = "returned" => token_count <= token_budget

C15_Witness ==
    /\ render_pc = "returned" /\ token_count > token_budget
    /\ Len(render_parts) = 2 /\ context_nodes /= <<>>

(***************************************************************************)
(* The pipeline                                                            *)
(***************************************************************************)
Completed(call) == \E i \in DOMAIN pipe_log : pipe_log[i] = call
Before(first, second) ==
    \A i \in DOMAIN pipe_log :
        pipe_log[i] = second => \E j \in 1..(i - 1) : pipe_log[j] = first
Enrichments == {"dlint.enrich_graph_with_findings", "bandit.enrich_graph_with_findings"}

\* C16: GeneralPipeline.run is a sequencer: the directory build completes
\* before the graph is loaded, the load completes before any enrichment
\* starts, and when run returns normally the enrichment of every analyzer
\* service (dlint and bandit) has been executed.
C16_Sequencer ==
    /\ Completed("load") => phase = "returned"
    /\ Before("build", "load")
    /\ \A e \in Enrichments : Before("load", e)
    /\ pipe_pc = "returned" => \A e \in Enrichments : Completed(e)

C16_Witness ==
    /\ pipe_pc = "returned"
    /\ Completed("dlint.enrich_graph_with_findings")
    /\ ~Completed("bandit.enrich_graph_with_findings")
    /\ merged_nodes /= <<>>

(***************************************************************************)
(* Registration before processing                                          *)
(***************************************************************************)
TopLevelNamed(type, name) == SelectSeq(TopLevel(type), LAMBDA D : DefinitionName(D) = name)
\* the calls by name in top-level function F to the one top-level function of that name
CallsByName(F) ==
    SelectSeq(CallsIn(F),
              LAMBDA c : /\ Field(c, "function").type = "identifier"
                         /\ Len(TopLevelNamed("function_definition",
                                              Text(Field(c, "function")))) = 1)
Callee(c) == TopLevelNamed("function_definition", Text(Field(c, "function")))[1]

\* C17: in a module with top-level function definitions f and g, a call to g
\* by name inside the body of f resolves to the NodeID of g, whether g stands
\* before or after f in the text.
C17_ForwardReferences ==
    pc = "done" =>
        \A F \in Elems(TopLevel("function_definition")) :
            \A c \in Elems(CallsByName(F)) :
                HasCallSite(c, FunctionId(F), FunctionId(Callee(c)))

C17_Witness ==
    /\ pc = "done"
    /\ \E F \in Elems(TopLevel("function_definition")) :
          \E c \in Elems(CallsByName(F)) :
              /\ Callee(c).sb > F.sb
              /\ ~HasCallSite(c, FunctionId(F), FunctionId(Callee(c)))

\* the function definitions directly in the body of class C, plain or decorated
MethodsOf(C) ==
    IF ~HasField(C, "body") THEN <<>>
    ELSE SelectSeq(Named("function_definition"),
                   LAMBDA D : \E i \in DOMAIN Field(C, "body").kids :
                                 \/ Field(C, "body").kids[i] = D
                                 \/ /\ Field(C, "body").kids[i].type = "decorated_definition"
                                    /\ Field(Field(C, "body").kids[i], "definition") = D)
Bound(name) == resolve_symbol(Acc.st, name) /= None
\* a statement of the module body is about to be processed
ProcessingStatement ==
    \/ pc = "children" /\ child_i <= Len(Tree.kids)
    \/ pc = "blocks" /\ child_i <= Len(iter_top_level_blocks(Tree))

\* C18: registration precedes processing: in every state in which a statement
\* of the module body is being processed, every class name declared at that
\* level, every method name of those classes and every function name declared
\* at that level is already bound in the scope resolver.
C18_RegistrationPrecedesProcessing ==
    ProcessingStatement =>
        /\ \A C \in Elems(TopLevel("class_definition")) :
              /\ Bound(DefinitionName(C))
              /\ \A M \in Elems(MethodsOf(C)) : Bound(DefinitionName(M))
        /\ \A F \in Elems(TopLevel("function_definition")) : Bound(DefinitionName(F))

C18_Witness ==
    /\ pc = "children" /\ child_i = 1
    /\ \E C \in Elems(TopLevel("class_definition")) :
          /\ Bound(DefinitionName(C))
          /\ \E M \in Elems(MethodsOf(C)) : ~Bound(DefinitionName(M))

(***************************************************************************)
(* Scope discipline                                                        *)
(***************************************************************************)
\* the next statement of the module to be processed is a function definition
AtFunctionDefinition ==
    /\ pc = "children" /\ child_i <= Len(Tree.kids)
    /\ Tree.kids[child_i].type = "function_definition"

\* C19: processing a function definition leaves the scope stack with the
\* scopes it had before the definition and the caller stack as it was, on
\* every exit path: normal return, the early return for a missing name, and a
\* statement of the body raising.
C19_StacksRestored ==
    [][AtFunctionDefinition => /\ Len(scope_stack') = Len(scope_stack)
                               /\ caller_stack' = caller_stack]_vars

C19_Witness ==
    /\ pc = "raised" /\ child_i > 1
    /\ Tree.kids[child_i - 1].type = "function_definition"
    /\ Len(scope_stack) > 1
    /\ caller_stack = <<FunctionId(Tree.kids[child_i - 1])>>

\* C20: under any sequence of push_scope, pop_scope, bind and resolve
\* operations the scope stack holds at least one scope; pop_scope at depth 1
\* leaves the stack and all bindings of the root scope unchanged, and at
\* any greater depth removes exactly the innermost scope.
C20_RootScopeStays ==
    /\ [](Len(scope_stack) >= 1)
    /\ [][(scope_op' /= <<>> /\ scope_op'[1] = "pop_scope") =>
             IF Len(scope_stack) = 1 THEN scope_stack' = scope_stack
             ELSE scope_stack' = SubSeq(scope_stack, 1, Len(scope_stack) - 1)]_vars

C20_Witness ==
    /\ scope_op = <<"pop_scope", 1>>
    /\ Len(scope_stack) = 1
    /\ scope_stack[1] /= <<>>

\* the scopes of stack that bind the normalized name, and the binding of the
\* innermost of them
Binders(stack, normalized) == {i \in DOMAIN stack : DictHas(stack[i], normalized)}
InnermostBinding(stack, normalized) ==
    IF Binders(stack, normalized) = {} THEN None
    ELSE DictGet(stack[CHOOSE i \in Binders(stack, normalized) :
                          \A j \in Binders(stack, normalized) : j <= i], normalized)
Resolved == scope_op /= <<>> /\ scope_op[1] = "resolve_symbol"

\* C21: resolve(name) returns the NodeID bound to the normalized name in the
\* innermost scope that binds it, returns not-found when no scope binds it,
\* and changes no scope; once the scope holding a shadowing binding is popped,
\* resolve returns the outer binding again.
C21_InnermostBindingWins ==
    /\ [](Resolved => scope_result.node_id
                        = InnermostBinding(scope_stack, normalize_name(scope_result.name)))
    /\ [][(scope_op' /= <<>> /\ scope_op'[1] = "resolve_symbol") =>
              scope_stack' = scope_stack]_vars
    /\ [](Len(scope_stack) > 1 =>
            \A name \in ScopeNames :
                resolve_symbol(pop_scope(Acc.st), name)
                  = InnermostBinding(SubSeq(scope_stack, 1, Len(scope_stack) - 1),
                                     normalize_name(name)))

C21_Witness ==
    /\ Resolved /\ Len(scope_stack) >= 2
    /\ scope_result.name = <<"a">>
    /\ DictHas(scope_stack[1], <<"a">>) /\ DictHas(scope_stack[2], <<"a">>)
    /\ DictGet(scope_stack[1], <<"a">>) /= DictGet(scope_stack[2], <<"a">>)
    /\ scope_result.node_id = DictGet(scope_stack[2], <<"a">>)
    /\ Len(scope_stack) = 2

(***************************************************************************)
(* Calls and the caller stack                                              *)
(***************************************************************************)
\* the nodes under n that lie in no function definition
RECURSIVE OutsideFunctions(_)
OutsideFunctions(n) ==
    IF n.type = "function_definition" THEN <<>>
    ELSE <<n>> \o ConcatAll([i \in DOMAIN n.kids |-> OutsideFunctions(n.kids[i])])
\* the calls written directly in the body of class C
ClassBodyCalls(C) ==
    IF HasField(C, "body") THEN OfType(OutsideFunctions(Field(C, "body")), "call") ELSE <<>>
\* the graph holds nothing for call c: no CallNode and no call-graph edge
NoCallSite(c) ==
    /\ ~DictHas(nodes, CallId(c))
    /\ \A j \in DOMAIN edges :
          edges[j].rel \in {"CallGraphCalls", "CallGraphCalledBy"} =>
              edges[j].src /= CallId(c) /\ edges[j].dst /= CallId(c)
AtTopLevelClass ==
    /\ pc = "children" /\ child_i <= Len(Tree.kids)
    /\ Tree.kids[child_i].type = "class_definition"
    /\ HasField(Tree.kids[child_i], "name")

\* C22: a call processed while the caller stack is empty, such as a call
\* written directly in the body of a top-level class, is skipped silently:
\* the graph gets no CallNode and no call-graph edge for it, nothing is
\* raised, and the caller stack stays empty.
C22_CallsWithoutCallerSkipped ==
    /\ [](\A C \in Elems(TopLevel("class_definition")) :
             \A c \in Elems(ClassBodyCalls(C)) : NoCallSite(c))
    /\ [][(AtTopLevelClass /\ caller_stack = <<>>) =>
             (pc' /= "raised" /\ caller_stack' = <<>>)]_vars

C22_Witness ==
    /\ pc = "done"
    /\ \E C \in Elems(TopLevel("class_definition")) :
          \E c \in Elems(ClassBodyCalls(C)) :
              /\ Field(c, "function").type = "identifier"
              /\ StartsWith(resolve_symbol(Acc.st, Text(Field(c, "function"))),
                            <<"function", ":">>)
              /\ DictHas(nodes, ClassId(C))
              /\ NoCallSite(c)

\* the calls of the run that starts at child i of the module, outside functions
RunCalls(i) ==
    ConcatAll([k \in 1..(RunEnd(i) - i + 1) |->
                 OfType(OutsideFunctions(Tree.kids[i + k - 1]), "call")])
\* node_id is the NodeID of the CodeBlockNode of the run that starts at child i
IsBlockOfRun(node_id, i) ==
    \E e \in Elems(CodeBlockNodes) :
        /\ e.k = node_id
        /\ e.k[Len(e.k)] = ToString(Tree.kids[i].sb)
        /\ e.v.line_start = Tree.kids[i].sl + 1

\* C23: every CallNode of a call that lies in a top-level run, outside any
\* function definition, has the NodeID of the CodeBlockNode of that run as
\* caller_id; the runs are processed after all definitions, and the caller
\* stack is empty again after each run.
C23_RunIsCaller ==
    /\ pc \in {"blocks", "done"} =>
          /\ caller_stack = <<>>
          /\ \A F \in Elems(TopLevel("function_definition")) : DictHas(nodes, FunctionId(F))
          /\ \A C \in Elems(TopLevel("class_definition")) : DictHas(nodes, ClassId(C))
    /\ \A i \in RunStarts :
          \A c \in Elems(RunCalls(i)) :
              DictHas(nodes, CallId(c)) =>
                  /\ pc \in {"blocks", "done"}
                  /\ IsBlockOfRun(DictGet(nodes, CallId(c)).caller_id, i)

C23_Witness ==
    /\ pc = "done"
    /\ \E i \in RunStarts :
          \E c \in Elems(RunCalls(i)) :
              /\ DictHas(nodes, CallId(c))
              /\ ~IsBlockOfRun(DictGet(nodes, CallId(c)).caller_id, i)
              /\ \E e \in Elems(CodeBlockNodes) : e.k = DictGet(nodes, CallId(c)).caller_id

(***************************************************************************)
(* Assignments                                                             *)
(***************************************************************************)
\* the next run to be processed is the single statement `t op= e`, t a name
Blocks == iter_top_level_blocks(Tree)
AtAugmentedAssignment ==
    /\ pc = "blocks" /\ child_i <= Len(Blocks)
    /\ Len(Blocks[child_i]) = 1
    /\ Blocks[child_i][1].type = "expression_statement"
    /\ Blocks[child_i][1].kids[1].type = "augmented_assignment"
    /\ Field(Blocks[child_i][1].kids[1], "left").type = "identifier"
Augmented == Blocks[child_i][1].kids[1]
\* the sources of e, a name resolving to its NodeID and any other name to the
\* variable_ref made for it
NameSources(e) ==
    {IF Bound(Text(a)) THEN resolve_symbol(Acc.st, Text(a))
     ELSE NodeID_create("variable_ref", Text(a), path, a.sb) :
        a \in Elems(OfType(AllNodes(e), "identifier"))}
\* what the statement adds to the graph
NewEdges == SubSeq(edges', Len(edges) + 1, Len(edges'))
NewNodes == SubSeq(nodes', Len(nodes) + 1, Len(nodes'))
EdgesInto(dst) ==
    SelectSeq(NewEdges, LAMBDA e : e.rel = "DataFlowDefinedBy" /\ e.dst = dst)
EachOnce(es, srcs) ==
    /\ {es[j].src : j \in DOMAIN es} = srcs
    /\ Len(es) = Cardinality(srcs)
ReferenceTo(t, n) == NodeID_create("variable_ref", Text(t), path, n.sb)

\* C24: for an augmented assignment `t op= e` whose target already resolves
\* to T, the DataFlowDefinedBy edges emitted into T have as sources exactly
\* the distinct sources of e together with T, each once, and no variable_ref
\* node is made for t; when t does not resolve, a variable_ref node made for
\* t is the extra source.
C24_PreviousValueIsSource ==
    [][AtAugmentedAssignment =>
         IF Bound(Text(Field(Augmented, "left")))
         THEN /\ EachOnce(EdgesInto(resolve_symbol(Acc.st, Text(Field(Augmented, "left")))),
                          NameSources(Field(Augmented, "right"))
                            \cup {resolve_symbol(Acc.st, Text(Field(Augmented, "left")))})
              /\ \A j \in DOMAIN NewNodes :
                    NewNodes[j].k /= ReferenceTo(Field(Augmented, "left"), Augmented)
         ELSE /\ \E j \in DOMAIN NewNodes :
                    NewNodes[j].k = ReferenceTo(Field(Augmented, "left"), Augmented)
              /\ \E j \in DOMAIN NewEdges :
                    /\ NewEdges[j].rel = "DataFlowDefinedBy"
                    /\ NewEdges[j].src = ReferenceTo(Field(Augmented, "left"), Augmented)
                    /\ NewEdges[j].dst = NodeID_create("variable",
                                                       Text(Field(Augmented, "left")), path,
                                                       Field(Augmented, "left").sb)]_vars

\* `a = ...` came first, then `a += a`: a variable_ref node for a is in the graph
C24_Witness ==
    /\ pc \in {"blocks", "done"}
    /\ \E j \in DOMAIN nodes :
          /\ StartsWith(nodes[j].k, <<"variable_ref", ":", "a", "@">>)
          /\ \E k \in DOMAIN edges :
                /\ edges[k].rel = "DataFlowDefinedBy"
                /\ edges[k].src = nodes[j].k
                /\ StartsWith(edges[k].dst, <<"variable", ":", "a", "@">>)
                /\ edges[k].dst[Len(edges[k].dst)] /= nodes[j].k[Len(nodes[j].k)]
                /\ \E m \in DOMAIN edges :
                      /\ m > k - 2 /\ m < k
                      /\ edges[m].src = edges[k].dst /\ edges[m].dst = edges[k].dst

(***************************************************************************)
(* Relative imports                                                        *)
(***************************************************************************)
\* the packages left after walking up from the package of the importing file
Remaining(packages, level) == SubSeq(packages, 1, Len(packages) - (level - 1))

\* C25: _resolve_import_from_module returns the module name unchanged for
\* level 0; for level L >= 1 in a file whose module name is p1.....pk.m with
\* L-1 <= k it returns the package p1.....p(k-(L-1)) joined with the
\* imported module path.
C25_RelativeImports ==
    (import_out /= <<>> /\ import_args.stem = "m") =>
        /\ import_args.level = 0 =>
              import_out.value = (IF import_args.module = <<>> THEN None
                                  ELSE Dotted(import_args.module))
        /\ (import_args.level >= 1 /\ import_args.level - 1 <= Len(import_args.packages)) =>
              import_out.value = Dotted(Remaining(import_args.packages, import_args.level)
                                          \o import_args.module)

C25_Witness ==
    /\ import_out /= <<>> /\ import_args.stem = "m"
    /\ import_args.level = 2 /\ import_args.packages = <<"p", "q">>
    /\ import_args.module = <<"x", "y">>
    /\ import_out.value = <<"p", ".", "x", ".", "y">>

\* C29: in a package index file p1/.../pk/__init__.py, whose module name is
\* collapsed to p1.....pk, a level-1 import resolves against the package
\* itself: `from .m import y` to p1.....pk.m and `from . import y` to
\* p1.....pk.
C29_IndexFileImports ==
    (/\ import_out /= <<>> /\ import_args.stem = "__init__"
     /\ import_args.packages /= <<>> /\ import_args.level = 1) =>
        import_out.value = Dotted(import_args.packages \o import_args.module)

C29_Witness ==
    /\ import_out /= <<>> /\ import_args.stem = "__init__"
    /\ import_args.packages = <<"p">> /\ import_args.level = 1
    /\ import_args.module = <<"m">>
    /\ import_out.value = <<"m">>

(***************************************************************************)
(* Call-graph edges of a call-site                                         *)
(***************************************************************************)
CallNodes == SelectSeq(nodes, LAMBDA e : e.v.cls = "CallNode")
CallsInto(call_id) ==
    SelectSeq(edges, LAMBDA e : e.rel = "CallGraphCalls" /\ e.dst = call_id)
CalledByFrom(call_id) ==
    SelectSeq(edges, LAMBDA e : e.rel = "CallGraphCalledBy" /\ e.src = call_id)

\* C26: in the result of a single-file build every CallNode is the
\* destination of exactly one CallGraphCalls edge and the source of exactly
\* one CallGraphCalledBy edge, also for a call nested in the arguments of
\* another call, in a statement or on the right of an assignment.
C26_OneEdgePairPerCallSite ==
    pc = "done" =>
        \A e \in Elems(CallNodes) :
            Len(CallsInto(e.k)) = 1 /\ Len(CalledByFrom(e.k)) = 1

C26_Witness ==
    /\ pc = "done"
    /\ \E e \in Elems(CallNodes) :
          /\ Len(CallsInto(e.k)) = 2 /\ Len(CalledByFrom(e.k)) = 2
          /\ \E o \in Elems(CallNodes) :
                /\ o.k /= e.k
                /\ Len(CallsInto(o.k)) = 1 /\ Len(CalledByFrom(o.k)) = 1
                /\ \E j \in DOMAIN edges : edges[j] = DataFlowFlowsTo(e.k, o.k)

(***************************************************************************)
(* Targets and sources of assignments                                      *)
(***************************************************************************)
\* the edges an assignment statement emits (a class definition emits edges of
\* the same kind from its own NodeID to the nodes of its body)
AssignmentEdges ==
    SelectSeq(edges, LAMBDA e : /\ e.rel = "DataFlowDefinedBy"
                                /\ e.operation = "assignment"
                                /\ ~StartsWith(e.src, <<"class", ":">>))

\* C27: every DataFlowDefinedBy edge emitted by an assignment statement has as
\* dst the NodeID of a VariableNode of kind variable that is in the result,
\* also when the assigned name is already bound in the innermost scope to a
\* function or a class.
C27_TargetIsVariable ==
    pc = "done" =>
        \A e \in Elems(AssignmentEdges) :
            /\ StartsWith(e.dst, <<"variable", ":">>)
            /\ DictHas(nodes, e.dst)
            /\ DictGet(nodes, e.dst).cls = "VariableNode"

C27_Witness ==
    /\ pc = "done"
    /\ \E e \in Elems(AssignmentEdges) :
          /\ StartsWith(e.dst, <<"function", ":", "g", "@">>)
          /\ DictHas(nodes, e.dst)
          /\ DictGet(nodes, e.dst).cls = "FunctionNode"
          /\ \A j \in DOMAIN nodes : ~StartsWith(nodes[j].k, <<"variable", ":", "g", "@">>)

\* the top-level statements that assign the name x, by position in the module
IsAssignmentTo(n, x) ==
    /\ n.type \in {"assignment", "augmented_assignment"}
    /\ HasField(n, "left") /\ Field(n, "left").type = "identifier"
    /\ Text(Field(n, "left")) = x
AssignedAt(x) ==
    {i \in DOMAIN Tree.kids : /\ Tree.kids[i].type = "expression_statement"
                              /\ IsAssignmentTo(Tree.kids[i].kids[1], x)}
\* x is a name of module-level variables only: no function or class has it,
\* and it is assigned in top-level statements only
ModuleVariable(x) ==
    /\ NamedAs("function_definition", x) = <<>> /\ NamedAs("class_definition", x) = <<>>
    /\ Len(SelectSeq(AllNodes(Tree), LAMBDA n : IsAssignmentTo(n, x)))
         = Cardinality(AssignedAt(x))
\* the statements `t = x` in the body of the top-level function at child j
\* for which a top-level statement before the function assigns x
References(j) ==
    IF Tree.kids[j].type /= "function_definition" \/ ~HasField(Tree.kids[j], "body") THEN <<>>
    ELSE SelectSeq(AllNodes(Field(Tree.kids[j], "body")),
                   LAMBDA n : /\ n.type = "assignment" /\ HasField(n, "right")
                              /\ Field(n, "left").type = "identifier"
                              /\ Field(n, "right").type = "identifier"
                              /\ ModuleVariable(Text(Field(n, "right")))
                              /\ \E i \in AssignedAt(Text(Field(n, "right"))) : i < j)
LocalId(n) == NodeID_create("variable", Text(Field(n, "left")), path, Field(n, "left").sb)
ReferenceId(n) ==
    NodeID_create("variable_ref", Text(Field(n, "right")), path, Field(n, "right").sb)
HasEdge(e) == \E j \in DOMAIN edges : edges[j] = e

TopLevelIds(f, type, prefix, n) ==
    LET m == ModuleOf(f.text)
    IN  {NodeID_create(prefix, n, f.target, m.tree.kids[i].sb) :
           i \in {k \in DOMAIN m.tree.kids :
                    /\ m.tree.kids[k].type = type /\ HasField(m.tree.kids[k], "name")
                    /\ SubSeq(m.src, Field(m.tree.kids[k], "name").sb + 1,
                              Field(m.tree.kids[k], "name").eb) = n}}
\* the entries (name, NodeID) the index holds for file f
IndexEntries(f) ==
    IF DictHas(symbol_index, module_name_for_path(f.name))
    THEN Elems(DictGet(symbol_index, module_name_for_path(f.name)))
    ELSE {}

\* C30: the NodeID the symbol index records for a function name of a module
\* is the NodeID of a top-level function of that name in the file, and the
\* one recorded for a class name is that of a top-level class, never that of
\* a method or nested definition of the same name earlier in the file.
C30_IndexRecordsTopLevel ==
    \A f \in files :
        \A e \in IndexEntries(f) :
            /\ StartsWith(e.v, <<"function", ":">>) =>
                  e.v \in TopLevelIds(f, "function_definition", "function", e.k)
            /\ StartsWith(e.v, <<"class", ":">>) =>
                  e.v \in TopLevelIds(f, "class_definition", "class", e.k)

C30_Witness ==
    /\ phase = "main"
    /\ \E f \in files :
          /\ f.text = <<"class_A", "def_g">>
          /\ \E e \in IndexEntries(f) :
                /\ e.k = <<"g">>
                /\ StartsWith(e.v, <<"function", ":", "g", "@">>)
                /\ e.v \notin TopLevelIds(f, "function_definition", "function", <<"g">>)

====
